---- MODULE Spec2Model ----
(***************************************************************************)
(* A model of SSS, the Simple SWORD Server (src/sss.py), and of the        *)
(* Statement entity of its later revision (src/sss/core.py).               *)
(*                                                                         *)
(* The store is the file tree the DAO keeps: one directory per collection, *)
(* one directory per container, and in a container the files atom.xml,     *)
(* sss_metadata.xml, sss_statement.xml, sss_deposit-receipt.xml and the    *)
(* timestamped content files.  Every method of SWORDServer is an operator  *)
(* from a store and a request to the store it leaves and the value it      *)
(* returns; an uncaught Python exception is the result Fault, together     *)
(* with the store as it was when the exception was raised.                 *)
(***************************************************************************)
EXTENDS Integers, Sequences, FiniteSets, TLC

VARIABLES store, cfg, clock, ops, last, stmt, xml, loaded, neg, rc, um, th

vars == <<store, cfg, clock, ops, last, stmt, xml, loaded, neg, rc, um, th>>

(***************************************************************************)
(* Bounds of the model.                                                    *)
(***************************************************************************)
\* a run makes at most MaxOps requests to the server
MaxOps == 2
\* a Statement of src/sss/core.py is given at most MaxDeposits original deposits
MaxDeposits == 2
\* and at most MaxAggregates plain aggregates
MaxAggregates == 2
\* an Accept header has at most MaxParts parts
MaxParts == 2

(***************************************************************************)
(* Values.  A missing string is None, a missing URI or document is Nil.    *)
(***************************************************************************)
None == "<None>"
Nil == <<>>

\* the collections DAO.__init__ has made, and one that does not exist
Collections == {"col1"}
NoCollection == "colX"
\* container ids: uuid4() draws an unused one, a Slug header names any
Ids == {"id1"}

\* Configuration: the packaging URIs and the two ingester classes
PackageSimpleZip == "http://purl.org/net/sword/package/SimpleZip"
PackageBinary == "http://purl.org/net/sword/package/Binary"
PackageMETSDSpaceSIP == "http://purl.org/net/sword/package/METSDSpaceSIP"
error_content_package == "http://purl.org/net/sword/package/error"

package_ingesters ==
    (PackageSimpleZip :> "DefaultIngester") @@ (PackageMETSDSpaceSIP :> "METSDSpaceIngester")

\* Configuration(): the switches as the constructor sets them
Configuration ==
    [authenticate |-> TRUE, mediation |-> TRUE, allow_update |-> TRUE,
     allow_delete |-> TRUE, return_deposit_receipt |-> TRUE]
cfg_user == "sword"
cfg_password == "sword"
cfg_obo == "obo"

\* SWORDSpec: the error URIs
error_content_uri == "http://purl.org/net/sword/error/ErrorContent"
error_checksum_mismatch_uri == "http://purl.org/net/sword/error/ErrorChecksumMismatch"
error_bad_request_uri == "http://purl.org/net/sword/error/ErrorBadRequest"
error_target_owner_unknown_uri == "http://purl.org/net/sword/error/TargetOwnerUnknown"
error_mediation_not_allowed_uri == "http://purl.org/net/sword/error/MediationNotAllowed"
error_method_not_allowed_uri == "http://purl.org/net/sword/error/MethodNotAllowed"

\* Statement: the two states
in_progress_uri == <<"http://purl.org/net/sword/state/in-progress">>
archived_uri == <<"http://purl.org/net/sword/state/archived">>
states(uri) ==
    IF uri = in_progress_uri
    THEN "The work is currently in progress, and has not passed to a reviewer"
    ELSE "The work has passed through review and is now in the archive"

(***************************************************************************)
(* Time.  datetime.now() has microseconds; strftime("%Y-%m-%dT%H:%M:%SZ")  *)
(* writes the whole seconds only and strptime reads them back.             *)
(***************************************************************************)
Seconds == 0 .. MaxOps
Time(sec, usec) == [sec |-> sec, usec |-> usec]
strftime(t) == ToString(t.sec)
strptime(text) == Time(CHOOSE n \in Seconds : ToString(n) = text, 0)

(***************************************************************************)
(* hashlib.md5: the digest of a content, a function of the content alone.  *)
(***************************************************************************)
md5_hexdigest(content) == "md5:" \o content

(***************************************************************************)
(* URIManager                                                              *)
(***************************************************************************)
\* A URI is the one-element tuple of its text, as in_progress_uri is.
base_url == "http://localhost:8080/"
html_url(collection, id) == <<base_url \o "html/" \o collection \o "/" \o id>>
col_uri(id) == <<base_url \o "col-uri/" \o id>>
edit_uri(collection, id) == <<base_url \o "edit-uri/" \o collection \o "/" \o id>>
em_uri(collection, id) == <<base_url \o "em-uri/" \o collection \o "/" \o id>>
cont_uri(collection, id) == <<base_url \o "cont-uri/" \o collection \o "/" \o id>>
state_uri(collection, id, type) ==
    LET root == base_url \o "state-uri/" \o collection \o "/" \o id
    IN IF type = "atom" THEN <<root \o ".atom">>
       ELSE IF type = "ore" THEN <<root \o ".rdf">>
       ELSE Nil
\* urllib.quote leaves the characters of a stored file name as they are
part_uri(collection, id, filename) ==
    <<base_url \o "part-uri/" \o collection \o "/" \o id \o "/" \o filename>>
agg_uri(collection, id) == <<base_url \o "agg-uri/" \o collection \o "/" \o id>>
atom_id(collection, id) == <<"tag:container@sss/" \o collection \o "/" \o id>>
\* an object id is the pair the URL path "collection/id" splits into
interpret_oid(oid) == oid

(***************************************************************************)
(* Statement (src/sss.py).  An original deposit is the tuple               *)
(* <<uri, deposit_time, packaging_format, by, obo>>.  The RDF/XML document *)
(* is the sequence of its rdf:Description elements, each with the          *)
(* rdf:about URI and its child elements in document order; an element is   *)
(* its tag, its rdf:resource (a URI, the packaging URI as <<uri>>) and its *)
(* text.                                                                   *)
(***************************************************************************)
Statement ==
    [aggregation_uri |-> Nil, rem_uri |-> Nil, original_deposits |-> <<>>,
     in_progress |-> FALSE]

\* the new deposit put in front of the others
original_deposit_first(s, uri, deposit_time, packaging_format, by, obo) ==
    [s EXCEPT !.original_deposits =
        <<(<<uri, deposit_time, packaging_format, by, obo>>)>> \o @]

original_deposit(s, uri, deposit_time, packaging_format, by, obo) ==
    [s EXCEPT !.original_deposits =
        Append(@, <<uri, deposit_time, packaging_format, by, obo>>)]

Element(tag, resource, text) == [tag |-> tag, resource |-> resource, text |-> text]
Description(about, children) == [about |-> about, children |-> children]

Statement_state_uri(s) == IF s.in_progress THEN in_progress_uri ELSE archived_uri

\* the ore:aggregates and sword:originalDeposit relations, one pair per deposit
Statement_relations(ods) ==
    [i \in 1 .. 2 * Len(ods) |->
        IF i % 2 = 1 THEN Element("ore:aggregates", ods[(i + 1) \div 2][1], None)
        ELSE Element("sword:originalDeposit", ods[i \div 2][1], None)]

\* the Description of one original deposit
Statement_deposit_description(od) ==
    Description(od[1],
        <<Element("sword:packaging", <<od[3]>>, None),
          Element("sword:depositedOn", Nil, strftime(od[2])),
          Element("sword:depositedBy", Nil, od[4])>>
        \o (IF od[5] # None
            THEN <<Element("sword:depositedOnBehalfOf", Nil, od[5])>> ELSE <<>>))

get_rdf_xml(s) ==
    <<Description(s.rem_uri, <<Element("ore:describes", s.aggregation_uri, None)>>),
      Description(s.aggregation_uri,
          <<Element("ore:isDescribedBy", s.rem_uri, None)>>
          \o Statement_relations(s.original_deposits)
          \o <<Element("sword:state", Statement_state_uri(s), None)>>)>>
    \o [i \in 1 .. Len(s.original_deposits) |->
          Statement_deposit_description(s.original_deposits[i])]
    \o <<Description(Statement_state_uri(s),
          <<Element("sword:stateDescription", Nil, states(Statement_state_uri(s)))>>)>>

\* set(name, None) raises TypeError: a statement without its URIs cannot be written
Statement_serialisable(s) == s.aggregation_uri # Nil /\ s.rem_uri # Nil

serialise(s) == get_rdf_xml(s)

\* the children of a Description that carry a tag, as positions
TagPositions(desc, tag) ==
    {i \in 1 .. Len(desc.children) : desc.children[i].tag = tag}
HasTag(desc, tag) == TagPositions(desc, tag) # {}
Highest(S) == CHOOSE i \in S : \A j \in S : j <= i
\* the loop over the children assigns on every match: the last match stays
LastChild(desc, tag) == desc.children[Highest(TagPositions(desc, tag))]

NoTime == Time(0 - 1, 0)

\* the deposits of the Descriptions doc[1..n] that carry a sword:packaging
RECURSIVE Statement_load_deposits(_, _)
Statement_load_deposits(doc, n) ==
    IF n = 0 THEN <<>>
    ELSE LET desc == doc[n]
             rest == Statement_load_deposits(doc, n - 1)
         IN IF HasTag(desc, "sword:packaging")
            THEN Append(rest,
                   <<desc.about,
                     IF HasTag(desc, "sword:depositedOn")
                     THEN strptime(LastChild(desc, "sword:depositedOn").text) ELSE NoTime,
                     LastChild(desc, "sword:packaging").resource[1],
                     IF HasTag(desc, "sword:depositedBy")
                     THEN LastChild(desc, "sword:depositedBy").text ELSE None,
                     IF HasTag(desc, "sword:depositedOnBehalfOf")
                     THEN LastChild(desc, "sword:depositedOnBehalfOf").text ELSE None>>)
            ELSE rest

\* the last Description of the document that carries the tag
LastDescription(doc, tag) ==
    doc[Highest({i \in 1 .. Len(doc) : HasTag(doc[i], tag)})]
AnyDescription(doc, tag) == \E i \in 1 .. Len(doc) : HasTag(doc[i], tag)

\* Statement.load of src/sss.py, on a new Statement()
Statement_load(doc) ==
    [aggregation_uri |->
        IF AnyDescription(doc, "ore:describes")
        THEN LastDescription(doc, "ore:describes").about ELSE Nil,
     rem_uri |->
        IF AnyDescription(doc, "ore:describes")
        THEN LastChild(LastDescription(doc, "ore:describes"), "ore:describes").resource
        ELSE Nil,
     original_deposits |-> Statement_load_deposits(doc, Len(doc)),
     in_progress |->
        IF AnyDescription(doc, "sword:state")
        THEN LastChild(LastDescription(doc, "sword:state"), "sword:state").resource
                = in_progress_uri
        ELSE FALSE]

(***************************************************************************)
(* DAO.  The store maps each existing container, <<collection, id>>, to    *)
(* its directory: files (stored name -> content), atom (atom.xml),         *)
(* metadata (sss_metadata.xml), statement (sss_statement.xml) and receipt  *)
(* (sss_deposit-receipt.xml); a file that does not exist is None or Nil.   *)
(***************************************************************************)
NoFiles == [n \in {} |-> None]
EmptyFile == ""
EmptyContainer ==
    [files |-> NoFiles, atom |-> None, metadata |-> Nil, statement |-> Nil, receipt |-> Nil]

\* collection_exists finding a directory whatever the name is
collection_exists_always(st, collection) == TRUE

collection_exists(st, collection) == collection \in Collections
container_exists(st, collection, id) == <<collection, id>> \in DOMAIN st

create_container(st, collection, id) ==
    IF <<collection, id>> \in DOMAIN st THEN st
    ELSE (<<collection, id>> :> EmptyContainer) @@ st

get_filename(now, filename) == strftime(now) \o "_" \o filename

\* open(afile, "w") makes the file; f.write(None) then raises TypeError
store_atom(st, collection, id, atom) ==
    IF atom = None
    THEN [store |-> [st EXCEPT ![<<collection, id>>].atom = EmptyFile], ok |-> FALSE]
    ELSE [store |-> [st EXCEPT ![<<collection, id>>].atom = atom], ok |-> TRUE]

store_content(st, collection, id, content, filename, now) ==
    LET ufn == get_filename(now, filename)
        written == IF content = None THEN EmptyFile ELSE content
    IN [store |-> [st EXCEPT ![<<collection, id>>].files = (ufn :> written) @@ @],
        ok |-> content # None,
        ufn |-> ufn]

\* sss_statement.atom.xml, the feed of the same statement, is written and
\* removed together with sss_statement.xml and is not kept apart
\* sss_statement.xml left as it is
store_statement_unwritten(st, collection, id, statement) == st

store_statement(st, collection, id, statement) ==
    [st EXCEPT ![<<collection, id>>].statement = serialise(statement)]

store_deposit_receipt(st, collection, id, receipt) ==
    [st EXCEPT ![<<collection, id>>].receipt = <<receipt>>]

store_metadata(st, collection, id, metadata) ==
    [st EXCEPT ![<<collection, id>>].metadata = <<metadata>>]

NoMetadata == [k \in {} |-> None]
get_metadata(st, collection, id) ==
    IF st[<<collection, id>>].metadata = Nil THEN NoMetadata
    ELSE st[<<collection, id>>].metadata[1]

\* the content files left where they are
remove_content_keeping_files(st, collection, id, keep_metadata) ==
    [st EXCEPT ![<<collection, id>>] =
        [EmptyContainer EXCEPT !.files = st[<<collection, id>>].files,
                               !.metadata = IF keep_metadata THEN st[<<collection, id>>].metadata
                                            ELSE Nil]]

remove_content(st, collection, id, keep_metadata) ==
    [st EXCEPT ![<<collection, id>>] =
        [EmptyContainer EXCEPT !.metadata = IF keep_metadata THEN st[<<collection, id>>].metadata
                                            ELSE Nil]]

\* the directory of the container left in place
remove_container_emptying(st, collection, id) ==
    remove_content(st, collection, id, FALSE)

remove_container(st, collection, id) ==
    LET emptied == remove_content(st, collection, id, FALSE)
    IN [k \in DOMAIN emptied \ {<<collection, id>>} |-> emptied[k]]

get_atom_content(st, collection, id) == st[<<collection, id>>].atom

\* open() raises IOError when sss_statement.xml is not there
statement_loadable(st, collection, id) == st[<<collection, id>>].statement # Nil
load_statement(st, collection, id) == Statement_load(st[<<collection, id>>].statement)

(***************************************************************************)
(* Ingest packagers.  etree_entry is the atom:entry a document parses to,  *)
(* as the mapping from its child elements to their text.                   *)
(***************************************************************************)
AtomDocs == {"<entry><title>A Title</title><summary>An abstract</summary></entry>"}
etree_entry(atom) == ("title" :> "A Title") @@ ("summary" :> "An abstract")

DefaultIngester_metadata(entry) ==
    [k \in {m \in {"title", "abstract"} :
              (IF m = "title" THEN "title" ELSE "summary") \in DOMAIN entry} |->
        entry[IF k = "title" THEN "title" ELSE "summary"]]

\* etree.fromstring raises XMLSyntaxError on an empty atom.xml
DefaultIngester_ingest(st, collection, id, filename, metadata_relevant) ==
    LET atom == get_atom_content(st, collection, id)
    IN IF atom = None THEN [store |-> st, ok |-> TRUE]
       ELSE IF atom = EmptyFile THEN [store |-> st, ok |-> FALSE]
       ELSE [store |-> store_metadata(st, collection, id,
                                      DefaultIngester_metadata(etree_entry(atom))),
             ok |-> TRUE]

METSDSpaceIngester_ingest(st, collection, id, filename, metadata_relevant) ==
    [store |-> st, ok |-> TRUE]

\* packager = <class>(); packager.ingest(collection, id, fn, metadata_relevant)
ingest(class, st, collection, id, filename, metadata_relevant) ==
    IF class = "DefaultIngester"
    THEN DefaultIngester_ingest(st, collection, id, filename, metadata_relevant)
    ELSE METSDSpaceIngester_ingest(st, collection, id, filename, metadata_relevant)

(***************************************************************************)
(* Requests and responses.  deposit.auth is Nil or an Auth.  A response    *)
(* is a DepositResponse, a DeleteResponse, Absent (the method returned     *)
(* None) or Fault (the method raised).                                     *)
(***************************************************************************)
Auth(by, obo, target_owner_unknown) ==
    [by |-> by, obo |-> obo, target_owner_unknown |-> target_owner_unknown]
Auth_success(auth) == auth.by # None /\ ~auth.target_owner_unknown

DepositResponse ==
    [class |-> "DepositResponse", created |-> FALSE, accepted |-> FALSE,
     error_code |-> None, error |-> None, receipt |-> Nil, location |-> Nil]
DeleteResponse ==
    [class |-> "DeleteResponse", error_code |-> None, error |-> None, receipt |-> Nil]
Absent == [class |-> "None"]
Fault == [class |-> "Fault"]
NoError == [class |-> "NoError"]

Result(st, resp) == [store |-> st, resp |-> resp]

\* the sword:error document, as the error URI of its href
sword_error(uri) == uri

sword_disseminate_package == <<PackageSimpleZip>>

\* defaults that depend on what a former call left: a title that is there
\* is replaced
receipt_metadata_replacing(metadata) ==
    LET m1 == IF "title" \in DOMAIN metadata THEN [metadata EXCEPT !["title"] = "SWORD Deposit"]
              ELSE ("title" :> "Untitled") @@ metadata
        m2 == IF "creator" \in DOMAIN m1 THEN m1 ELSE ("creator" :> "SWORD Client") @@ m1
    IN IF "abstract" \in DOMAIN m2 THEN m2
       ELSE ("abstract" :> "Content deposited with SWORD client") @@ m2

\* the metadata with the defaults the receipt needs
receipt_metadata(metadata) ==
    LET m1 == IF "title" \in DOMAIN metadata THEN metadata
              ELSE ("title" :> "SWORD Deposit") @@ metadata
        m2 == IF "creator" \in DOMAIN m1 THEN m1 ELSE ("creator" :> "SWORD Client") @@ m1
    IN IF "abstract" \in DOMAIN m2 THEN m2
       ELSE ("abstract" :> "Content deposited with SWORD client") @@ m2

\* the atom:entry, field by field; metadata Nil is Python's None
deposit_receipt(collection, id, deposit, statement, metadata, now) ==
    LET md == receipt_metadata(IF metadata = Nil THEN NoMetadata ELSE metadata)
    IN [title |-> md["title"],
        id |-> atom_id(collection, id),
        updated |-> strftime(now),
        author |-> md["creator"],
        summary |-> md["abstract"],
        dcterms |-> md,
        alternate |-> html_url(collection, id),
        content_src |-> cont_uri(collection, id),
        edit |-> edit_uri(collection, id),
        edit_media |-> em_uri(collection, id),
        edit_media_feed |-> <<em_uri(collection, id)[1] \o ".atom">>,
        packaging |-> sword_disseminate_package,
        statement_atom |-> state_uri(collection, id, "atom"),
        statement_ore |-> state_uri(collection, id, "ore"),
        statement |-> get_rdf_xml(statement)]

mediation_error ==
    [DepositResponse EXCEPT !.error = sword_error(error_mediation_not_allowed_uri),
                            !.error_code = "412 Precondition Failed"]

\* check_delete_errors without its test: an On-Behalf-Of delete is let through
check_delete_errors_unmediated(delete) == NoError

check_delete_errors(delete) ==
    IF delete.auth # Nil /\ delete.auth.obo # None /\ ~cfg.mediation
    THEN mediation_error ELSE NoError

check_mediated_error(deposit) ==
    IF deposit.auth # Nil /\ deposit.auth.obo # None /\ ~cfg.mediation
    THEN mediation_error ELSE NoError

\* check_deposit_errors without the checksum test
check_deposit_errors_unverified(deposit) ==
    IF deposit.packaging = error_content_package
    THEN [DepositResponse EXCEPT !.error = sword_error(error_content_uri),
                                 !.error_code = "400 Bad Request"]
    ELSE IF deposit.auth # Nil /\ deposit.auth.obo # None /\ ~cfg.mediation
    THEN mediation_error
    ELSE NoError

\* check_deposit_errors with the checksum tested before the packaging
check_deposit_errors_checksum_first(deposit) ==
    IF deposit.content_md5 # None /\ deposit.content = None THEN Fault
    ELSE IF deposit.content_md5 # None /\ md5_hexdigest(deposit.content) # deposit.content_md5
    THEN [DepositResponse EXCEPT !.error = sword_error(error_checksum_mismatch_uri),
                                 !.error_code = "412 Precondition Failed"]
    ELSE IF deposit.packaging = error_content_package
    THEN [DepositResponse EXCEPT !.error = sword_error(error_content_uri),
                                 !.error_code = "400 Bad Request"]
    ELSE IF deposit.auth # Nil /\ deposit.auth.obo # None /\ ~cfg.mediation
    THEN mediation_error
    ELSE NoError

\* m.update(None) raises TypeError when a Content-MD5 comes without content
check_deposit_errors(deposit) ==
    IF deposit.packaging = error_content_package
    THEN [DepositResponse EXCEPT !.error = sword_error(error_content_uri),
                                 !.error_code = "400 Bad Request"]
    ELSE IF deposit.content_md5 # None /\ deposit.content = None THEN Fault
    ELSE IF deposit.content_md5 # None /\ md5_hexdigest(deposit.content) # deposit.content_md5
    THEN [DepositResponse EXCEPT !.error = sword_error(error_checksum_mismatch_uri),
                                 !.error_code = "412 Precondition Failed"]
    ELSE IF deposit.auth # Nil /\ deposit.auth.obo # None /\ ~cfg.mediation
    THEN mediation_error
    ELSE NoError

exists(st, oid) == collection_exists(st, oid[1]) /\ container_exists(st, oid[1], oid[2])

auth_by(request) == IF request.auth # Nil THEN request.auth.by ELSE None
auth_obo(request) == IF request.auth # Nil THEN request.auth.obo ELSE None

\* deposited with dr.created = True set whatever in_progress is
deposited_created(receipt, location, in_progress) ==
    [DepositResponse EXCEPT !.receipt = <<receipt>>, !.location = location,
                            !.accepted = in_progress, !.created = TRUE]

\* dr.accepted = True when in_progress, dr.created = True otherwise
deposited(receipt, location, in_progress) ==
    [DepositResponse EXCEPT !.receipt = <<receipt>>, !.location = location,
                            !.accepted = in_progress, !.created = ~in_progress]

(***************************************************************************)
(* SWORDServer.  now is what datetime.now() returns during the call and    *)
(* uuid what uuid.uuid4() returns.                                         *)
(***************************************************************************)
\* a statement left with the in_progress a Statement() starts with
new_statement_archived(collection, id, request, deposit_uri, now) ==
    LET s == [Statement EXCEPT !.aggregation_uri = agg_uri(collection, id),
                               !.rem_uri = edit_uri(collection, id)]
    IN IF deposit_uri # Nil
       THEN original_deposit(s, deposit_uri, now, request.packaging,
                             auth_by(request), auth_obo(request))
       ELSE s

\* s = Statement(); its URIs; the original deposit when there is one; in_progress
new_statement(collection, id, request, deposit_uri, now) ==
    LET s == [Statement EXCEPT !.aggregation_uri = agg_uri(collection, id),
                               !.rem_uri = edit_uri(collection, id)]
        t == IF deposit_uri # Nil
             THEN original_deposit(s, deposit_uri, now, request.packaging,
                                   auth_by(request), auth_obo(request))
             ELSE s
    IN [t EXCEPT !.in_progress = request.in_progress]

deposit_new(st, collection, deposit, now, uuid) ==
    LET er == check_deposit_errors(deposit)
        id == IF deposit.slug = None THEN uuid ELSE deposit.slug
        s1 == create_container(st, collection, id)
        s2 == IF deposit.atom # None
              THEN store_atom(s1, collection, id, deposit.atom).store ELSE s1
        sc == store_content(s2, collection, id, deposit.content, deposit.filename, now)
        ig == ingest(package_ingesters[deposit.packaging], sc.store, collection, id,
                     sc.ufn, deposit.metadata_relevant)
        s3 == IF deposit.content # None THEN ig.store ELSE s2
        deposit_uri == IF deposit.content # None
                       THEN part_uri(collection, id, sc.ufn) ELSE Nil
        s == new_statement(collection, id, deposit, deposit_uri, now)
        s4 == store_statement(s3, collection, id, s)
        receipt == deposit_receipt(collection, id, deposit, s,
                                   get_metadata(s4, collection, id), now)
        s5 == store_deposit_receipt(s4, collection, id, receipt)
    IN IF er # NoError THEN Result(st, er)
       ELSE IF ~collection_exists(st, collection) THEN Result(st, Absent)
       ELSE IF deposit.content # None /\ deposit.packaging \notin DOMAIN package_ingesters
       THEN Result(sc.store, Fault)
       ELSE IF deposit.content # None /\ ~ig.ok THEN Result(ig.store, Fault)
       ELSE Result(s5, deposited(receipt, edit_uri(collection, id), deposit.in_progress))

\* replace writing the statement before it stores and ingests the content
replace_statement_first(st, oid, deposit, now) ==
    LET er == check_deposit_errors(deposit)
        collection == interpret_oid(oid)[1]
        id == interpret_oid(oid)[2]
        s1 == remove_content(st, collection, id, deposit.metadata_relevant)
        ufn == get_filename(now, deposit.filename)
        s == new_statement(collection, id, deposit, part_uri(collection, id, ufn), now)
        s2 == store_statement(s1, collection, id, s)
        sc == store_content(s2, collection, id, deposit.content, deposit.filename, now)
        ig == ingest(package_ingesters[deposit.packaging], sc.store, collection, id,
                     sc.ufn, deposit.metadata_relevant)
        receipt == deposit_receipt(collection, id, deposit, s, Nil, now)
        s5 == store_deposit_receipt(ig.store, collection, id, receipt)
    IN IF er # NoError THEN Result(st, er)
       ELSE IF ~exists(st, oid) THEN Result(st, Absent)
       ELSE IF ~sc.ok THEN Result(sc.store, Fault)
       ELSE IF deposit.packaging \notin DOMAIN package_ingesters THEN Result(sc.store, Fault)
       ELSE IF ~ig.ok THEN Result(ig.store, Fault)
       ELSE Result(s5, deposited(receipt, Nil, deposit.in_progress))

replace(st, oid, deposit, now) ==
    LET er == check_deposit_errors(deposit)
        collection == interpret_oid(oid)[1]
        id == interpret_oid(oid)[2]
        s1 == remove_content(st, collection, id, deposit.metadata_relevant)
        sc == store_content(s1, collection, id, deposit.content, deposit.filename, now)
        ig == ingest(package_ingesters[deposit.packaging], sc.store, collection, id,
                     sc.ufn, deposit.metadata_relevant)
        s == new_statement(collection, id, deposit, part_uri(collection, id, sc.ufn), now)
        s4 == store_statement(ig.store, collection, id, s)
        receipt == deposit_receipt(collection, id, deposit, s, Nil, now)
        s5 == store_deposit_receipt(s4, collection, id, receipt)
    IN IF er # NoError THEN Result(st, er)
       ELSE IF ~exists(st, oid) THEN Result(st, Absent)
       ELSE IF ~sc.ok THEN Result(sc.store, Fault)
       ELSE IF deposit.packaging \notin DOMAIN package_ingesters THEN Result(sc.store, Fault)
       ELSE IF ~ig.ok THEN Result(ig.store, Fault)
       ELSE Result(s5, deposited(receipt, Nil, deposit.in_progress))

delete_content(st, oid, delete, now) ==
    LET er == check_delete_errors(delete)
        collection == interpret_oid(oid)[1]
        id == interpret_oid(oid)[2]
        s1 == remove_content(st, collection, id, delete.metadata_relevant)
        s == new_statement(collection, id, delete, Nil, now)
        s4 == store_statement(s1, collection, id, s)
        receipt == deposit_receipt(collection, id, delete, s, Nil, now)
        s5 == store_deposit_receipt(s4, collection, id, receipt)
    IN IF er # NoError THEN Result(st, er)
       ELSE IF ~exists(st, oid) THEN Result(st, Absent)
       ELSE Result(s5, [DeleteResponse EXCEPT !.receipt = <<receipt>>])

add_content(st, oid, deposit, now) ==
    LET er == check_deposit_errors(deposit)
        collection == interpret_oid(oid)[1]
        id == interpret_oid(oid)[2]
        sc == store_content(st, collection, id, deposit.content, deposit.filename, now)
        s3 == IF deposit.content # None THEN sc.store ELSE st
        deposit_uri == IF deposit.content # None
                       THEN part_uri(collection, id, sc.ufn) ELSE Nil
        s == new_statement(collection, id, deposit, deposit_uri, now)
        s4 == store_statement(s3, collection, id, s)
        receipt == deposit_receipt(collection, id, deposit, s,
                                   get_metadata(s4, collection, id), now)
        s5 == store_deposit_receipt(s4, collection, id, receipt)
    IN IF er # NoError THEN Result(st, er)
       ELSE IF ~exists(st, oid) THEN Result(st, Absent)
       ELSE Result(s5, deposited(receipt, edit_uri(collection, id), deposit.in_progress))

deposit_existing(st, oid, deposit, now) ==
    LET er == check_deposit_errors(deposit)
        collection == interpret_oid(oid)[1]
        id == interpret_oid(oid)[2]
        loaded_s == load_statement(st, collection, id)
        s2 == IF deposit.atom # None
              THEN store_atom(st, collection, id, deposit.atom).store ELSE st
        sc == store_content(s2, collection, id, deposit.content, deposit.filename, now)
        pclass == IF deposit.packaging \in DOMAIN package_ingesters
                  THEN package_ingesters[deposit.packaging] ELSE None
        ig == IF pclass # None
              THEN ingest(pclass, sc.store, collection, id, sc.ufn, deposit.metadata_relevant)
              ELSE [store |-> sc.store, ok |-> TRUE]
        appended == original_deposit(loaded_s, part_uri(collection, id, sc.ufn), now,
                                     deposit.packaging, auth_by(deposit), auth_obo(deposit))
        s == IF deposit.content # None
             THEN [appended EXCEPT !.in_progress = deposit.in_progress] ELSE loaded_s
        s4 == IF deposit.content # None THEN store_statement(ig.store, collection, id, s)
              ELSE s2
        receipt == deposit_receipt(collection, id, deposit, s, Nil, now)
        s5 == store_deposit_receipt(s4, collection, id, receipt)
    IN IF er # NoError THEN Result(st, er)
       ELSE IF ~exists(st, oid) THEN Result(st, Absent)
       ELSE IF ~statement_loadable(st, collection, id) THEN Result(st, Fault)
       ELSE IF deposit.content # None /\ ~ig.ok THEN Result(ig.store, Fault)
       ELSE Result(s5, deposited(receipt, Nil, deposit.in_progress))

\* update_metadata storing the loaded statement again with the in_progress
\* of the request
update_metadata_restating(st, oid, deposit, now) ==
    LET er == check_mediated_error(deposit)
        collection == interpret_oid(oid)[1]
        id == interpret_oid(oid)[2]
        sa == store_atom(st, collection, id, deposit.atom)
        s == [load_statement(sa.store, collection, id)
                EXCEPT !.in_progress = deposit.in_progress]
        s4 == store_statement(sa.store, collection, id, s)
        receipt == deposit_receipt(collection, id, deposit, s, Nil, now)
        s5 == store_deposit_receipt(s4, collection, id, receipt)
    IN IF er # NoError THEN Result(st, er)
       ELSE IF ~exists(st, oid) THEN Result(st, Absent)
       ELSE IF ~sa.ok THEN Result(sa.store, Fault)
       ELSE IF ~statement_loadable(sa.store, collection, id) THEN Result(sa.store, Fault)
       ELSE Result(s5, deposited(receipt, Nil, deposit.in_progress))

update_metadata(st, oid, deposit, now) ==
    LET er == check_mediated_error(deposit)
        collection == interpret_oid(oid)[1]
        id == interpret_oid(oid)[2]
        sa == store_atom(st, collection, id, deposit.atom)
        s == load_statement(sa.store, collection, id)
        receipt == deposit_receipt(collection, id, deposit, s, Nil, now)
        s5 == store_deposit_receipt(sa.store, collection, id, receipt)
    IN IF er # NoError THEN Result(st, er)
       ELSE IF ~exists(st, oid) THEN Result(st, Absent)
       ELSE IF ~sa.ok THEN Result(sa.store, Fault)
       ELSE IF ~statement_loadable(sa.store, collection, id) THEN Result(sa.store, Fault)
       ELSE Result(s5, deposited(receipt, Nil, deposit.in_progress))

\* delete_container removing the container before it checks the request
delete_container_unchecked(st, oid, delete) ==
    LET er == check_delete_errors(delete)
        collection == interpret_oid(oid)[1]
        id == interpret_oid(oid)[2]
    IN IF ~exists(st, oid) THEN Result(st, IF er # NoError THEN er ELSE Absent)
       ELSE Result(remove_container(st, collection, id),
                   IF er # NoError THEN er ELSE DeleteResponse)

delete_container(st, oid, delete) ==
    LET er == check_delete_errors(delete)
        collection == interpret_oid(oid)[1]
        id == interpret_oid(oid)[2]
    IN IF er # NoError THEN Result(st, er)
       ELSE IF ~exists(st, oid) THEN Result(st, Absent)
       ELSE Result(remove_container(st, collection, id), DeleteResponse)

(***************************************************************************)
(* SWORDSpec and the HTTP handlers.  web is the request as web.py shows    *)
(* it: the environ keys that are read and web.data(); a header that was    *)
(* not sent is None.  The requests here are not multipart: web.input() is  *)
(* empty.                                                                  *)
(***************************************************************************)
DepositRequest ==
    [packaging |-> PackageBinary, in_progress |-> FALSE, metadata_relevant |-> TRUE,
     auth |-> Nil, content_md5 |-> None, slug |-> None,
     content |-> None, atom |-> None, filename |-> "example.zip"]
DeleteRequest ==
    [packaging |-> PackageBinary, in_progress |-> FALSE, metadata_relevant |-> TRUE,
     auth |-> Nil, content_md5 |-> None, slug |-> None]

NoStatus == "200 OK"

\* the Auth returned and the status set on the way.  HTTP_AUTHORIZATION is
\* Nil or the decoded credentials split at ':'; the assignment to
\* username, password raises unless the split gives two fields
authenticate(web) ==
    IF ~cfg.authenticate
    THEN [auth |-> Auth(cfg_user, None, FALSE), status |-> NoStatus, raised |-> FALSE]
    ELSE IF web.HTTP_AUTHORIZATION = Nil
    THEN [auth |-> Auth(None, None, FALSE), status |-> "401 Unauthorized", raised |-> FALSE]
    ELSE IF Len(web.HTTP_AUTHORIZATION) # 2
    THEN [auth |-> Nil, status |-> NoStatus, raised |-> TRUE]
    ELSE IF web.HTTP_AUTHORIZATION[1] # cfg_user \/ web.HTTP_AUTHORIZATION[2] # cfg_password
    THEN [auth |-> Auth(None, None, FALSE), status |-> "401 Unauthorized", raised |-> FALSE]
    ELSE IF web.HTTP_ON_BEHALF_OF # None /\ web.HTTP_ON_BEHALF_OF # cfg_obo
    THEN [auth |-> Auth(cfg_user, web.HTTP_ON_BEHALF_OF, TRUE), status |-> NoStatus,
          raised |-> FALSE]
    ELSE [auth |-> Auth(cfg_user, web.HTTP_ON_BEHALF_OF, FALSE), status |-> NoStatus,
          raised |-> FALSE]

\* the message of the first rule the request breaks, None when it validates
validate_deposit_request(web, allow_multipart) ==
    LET webin == web.input
        len == Cardinality(DOMAIN webin)
    IN IF web.HTTP_IN_PROGRESS \notin {None, "true", "false"}
       THEN "In-Progress must be 'true' or 'false'"
       ELSE IF web.HTTP_METADATA_RELEVANT \notin {None, "true", "false"}
       THEN "Metadata-Relevant must be 'true' or 'false'"
       ELSE IF len # 2 /\ len > 0 THEN "Multipart request has more than 2 parts"
       ELSE IF len >= 2 /\ "atom" \notin DOMAIN webin /\ "payload" \notin DOMAIN webin
       THEN "Multipart request must contain Content-Dispositions with names 'atom' and 'payload'"
       ELSE IF len > 0 /\ ~allow_multipart
       THEN "Multipart request not permitted in this context"
       ELSE IF len # 2 /\ web.data = None THEN "No content sent to the server"
       ELSE None

\* SWORDSpec.validate_delete_request
validate_delete_request(web) ==
    IF web.HTTP_IN_PROGRESS \notin {None, "true", "false"}
    THEN "In-Progress must be 'true' or 'false'"
    ELSE IF web.HTTP_METADATA_RELEVANT \notin {None, "true", "false"}
    THEN "Metadata-Relevant must be 'true' or 'false'"
    ELSE None

\* base64.decodestring of a multipart payload
base64_decodestring == ("ZGF0YQ==" :> "data")

\* DepositRequest(), then set_by_header for each header sent, then the body
\* Fault when a two-part request has no part named atom or none named payload
get_deposit(web, auth, atom_only) ==
    LET only == atom_only \/ web.CONTENT_TYPE = "application/atom+xml"
        webin == web.input
        multipart == Cardinality(DOMAIN webin) = 2
    IN IF multipart /\ ("atom" \notin DOMAIN webin \/ "payload" \notin DOMAIN webin)
       THEN Fault
       ELSE [DepositRequest EXCEPT
          !.packaging = IF web.HTTP_PACKAGING # None THEN web.HTTP_PACKAGING ELSE @,
          !.in_progress = IF web.HTTP_IN_PROGRESS # None
                          THEN web.HTTP_IN_PROGRESS = "true" ELSE @,
          !.metadata_relevant = IF web.HTTP_METADATA_RELEVANT # None
                                THEN web.HTTP_METADATA_RELEVANT = "true" ELSE @,
          !.content_md5 = web.HTTP_CONTENT_MD5,
          !.slug = web.HTTP_SLUG,
          !.atom = IF multipart THEN webin["atom"] ELSE IF only THEN web.data ELSE @,
          !.content = IF multipart THEN base64_decodestring[webin["payload"]]
                      ELSE IF only THEN @ ELSE web.data,
          !.auth = auth]

\* SWORDSpec.get_delete
get_delete(web, auth) ==
    [DeleteRequest EXCEPT
       !.packaging = IF web.HTTP_PACKAGING # None THEN web.HTTP_PACKAGING ELSE @,
       !.in_progress = IF web.HTTP_IN_PROGRESS # None
                       THEN web.HTTP_IN_PROGRESS = "true" ELSE @,
       !.metadata_relevant = IF web.HTTP_METADATA_RELEVANT # None
                             THEN web.HTTP_METADATA_RELEVANT = "true" ELSE @,
       !.content_md5 = web.HTTP_CONTENT_MD5,
       !.slug = web.HTTP_SLUG,
       !.auth = auth]

\* what a handler leaves: the store, the status line, the Location header,
\* the body returned, and the request and result of the engine call when it
\* came to one
Handled(st, status, location, body, deposit, result) ==
    [store |-> st, status |-> status, location |-> location, body |-> body,
     deposit |-> deposit, result |-> result]

\* an exception no handler catches: web.py answers 500
InternalError(st, deposit, result) ==
    Handled(st, "500 Internal Server Error", Nil, Nil, deposit, result)
\* return web.notfound()
NotFound(st, deposit, result) == Handled(st, "404 Not Found", Nil, Nil, deposit, result)
\* if not auth.success(): ...
Unauthorized(st, a) ==
    IF a.auth.target_owner_unknown
    THEN Handled(st, "401 Unauthorized", Nil, sword_error(error_target_owner_unknown_uri),
                 Nil, Nil)
    ELSE Handled(st, a.status, Nil, Nil, Nil, Nil)
\* if invalid is not None: ...
BadRequest(st) ==
    Handled(st, "400 Bad Request", Nil, sword_error(error_bad_request_uri), Nil, Nil)
\* if not cfg.allow_update / if not cfg.allow_delete: ...
MethodNotAllowed(st) ==
    Handled(st, "405 Method Not Allowed", Nil, sword_error(error_method_not_allowed_uri),
            Nil, Nil)
\* if cfg.return_deposit_receipt: return result.receipt / else: return
ReceiptBody(result) == IF cfg.return_deposit_receipt THEN result.receipt ELSE Nil
\* web.ctx.status = result.error_code; return result.error
ErrorBody(st, deposit, result) ==
    Handled(st, result.error_code, Nil, result.error, deposit, result)

Collection_POST(st, collection, web, now, uuid) ==
    LET a == authenticate(web)
        invalid == validate_deposit_request(web, TRUE)
        deposit == get_deposit(web, a.auth, FALSE)
        r == deposit_new(st, collection, deposit, now, uuid)
    IN IF a.raised THEN InternalError(st, Nil, Nil)
       ELSE IF ~Auth_success(a.auth) THEN Unauthorized(st, a)
       ELSE IF invalid # None THEN BadRequest(st)
       ELSE IF deposit = Fault THEN InternalError(st, Nil, Nil)
       ELSE IF r.resp = Fault THEN InternalError(r.store, deposit, r.resp)
       ELSE IF r.resp = Absent THEN NotFound(r.store, deposit, r.resp)
       ELSE IF r.resp.created
       THEN Handled(r.store, "201 Created", r.resp.location, ReceiptBody(r.resp),
                    deposit, r.resp)
       ELSE IF r.resp.accepted
       THEN Handled(r.store, "202 Accepted", r.resp.location, ReceiptBody(r.resp),
                    deposit, r.resp)
       ELSE ErrorBody(r.store, deposit, r.resp)

\* PUT to an EM-URI
MediaResource_PUT(st, oid, web, now) ==
    LET a == authenticate(web)
        invalid == validate_deposit_request(web, FALSE)
        deposit == get_deposit(web, a.auth, FALSE)
        r == replace(st, oid, deposit, now)
    IN IF ~cfg.allow_update THEN MethodNotAllowed(st)
       ELSE IF a.raised THEN InternalError(st, Nil, Nil)
       ELSE IF ~Auth_success(a.auth) THEN Unauthorized(st, a)
       ELSE IF invalid # None THEN BadRequest(st)
       ELSE IF deposit = Fault THEN InternalError(st, Nil, Nil)
       ELSE IF ~exists(st, oid) THEN NotFound(st, Nil, Nil)
       ELSE IF r.resp = Fault THEN InternalError(r.store, deposit, r.resp)
       ELSE IF r.resp.created
       THEN Handled(r.store, "200 OK", Nil, ReceiptBody(r.resp), deposit, r.resp)
       ELSE IF r.resp.accepted
       THEN Handled(r.store, "202 Accepted", Nil, ReceiptBody(r.resp), deposit, r.resp)
       ELSE ErrorBody(r.store, deposit, r.resp)

\* DELETE to an EM-URI
MediaResource_DELETE(st, oid, web, now) ==
    LET a == authenticate(web)
        invalid == validate_delete_request(web)
        delete == get_delete(web, a.auth)
        r == delete_content(st, oid, delete, now)
    IN IF ~cfg.allow_delete THEN MethodNotAllowed(st)
       ELSE IF a.raised THEN InternalError(st, Nil, Nil)
       ELSE IF ~Auth_success(a.auth) THEN Unauthorized(st, a)
       ELSE IF invalid # None THEN BadRequest(st)
       ELSE IF ~exists(st, oid) THEN NotFound(st, Nil, Nil)
       ELSE IF r.resp = Fault THEN InternalError(r.store, delete, r.resp)
       ELSE IF r.resp.error_code # None THEN ErrorBody(r.store, delete, r.resp)
       ELSE Handled(r.store, "204 No Content", Nil, Nil, delete, r.resp)

\* POST to an EM-URI: no allow_update test, and a result that is not
\* created is answered as an error whatever it is
MediaResource_POST(st, oid, web, now) ==
    LET a == authenticate(web)
        invalid == validate_deposit_request(web, TRUE)
        deposit == get_deposit(web, a.auth, FALSE)
        r == add_content(st, oid, deposit, now)
    IN IF a.raised THEN InternalError(st, Nil, Nil)
       ELSE IF ~Auth_success(a.auth) THEN Unauthorized(st, a)
       ELSE IF invalid # None THEN BadRequest(st)
       ELSE IF deposit = Fault THEN InternalError(st, Nil, Nil)
       ELSE IF ~exists(st, oid) THEN NotFound(st, Nil, Nil)
       ELSE IF r.resp = Fault THEN InternalError(r.store, deposit, r.resp)
       ELSE IF r.resp = Absent THEN NotFound(r.store, deposit, r.resp)
       ELSE IF r.resp.created
       THEN Handled(r.store, "201 Created", r.resp.location, ReceiptBody(r.resp),
                    deposit, r.resp)
       ELSE ErrorBody(r.store, deposit, r.resp)

\* POST to an Edit-URI
Container_POST(st, oid, web, now) ==
    LET a == authenticate(web)
        invalid == validate_deposit_request(web, TRUE)
        deposit == get_deposit(web, a.auth, FALSE)
        r == deposit_existing(st, oid, deposit, now)
    IN IF ~cfg.allow_update THEN MethodNotAllowed(st)
       ELSE IF a.raised THEN InternalError(st, Nil, Nil)
       ELSE IF ~Auth_success(a.auth) THEN Unauthorized(st, a)
       ELSE IF invalid # None THEN BadRequest(st)
       ELSE IF deposit = Fault THEN InternalError(st, Nil, Nil)
       ELSE IF r.resp = Fault THEN InternalError(r.store, deposit, r.resp)
       ELSE IF r.resp = Absent THEN NotFound(r.store, deposit, r.resp)
       ELSE IF r.resp.created
       THEN Handled(r.store, "200 OK", Nil, ReceiptBody(r.resp), deposit, r.resp)
       ELSE IF r.resp.accepted
       THEN Handled(r.store, "202 Accepted", Nil, ReceiptBody(r.resp), deposit, r.resp)
       ELSE ErrorBody(r.store, deposit, r.resp)

\* PUT to an Edit-URI: cfg is read, allow_update is not tested
Container_PUT(st, oid, web, now) ==
    LET a == authenticate(web)
        invalid == validate_deposit_request(web, TRUE)
        deposit == get_deposit(web, a.auth, TRUE)
        r == update_metadata(st, oid, deposit, now)
    IN IF a.raised THEN InternalError(st, Nil, Nil)
       ELSE IF ~Auth_success(a.auth) THEN Unauthorized(st, a)
       ELSE IF invalid # None THEN BadRequest(st)
       ELSE IF deposit = Fault THEN InternalError(st, Nil, Nil)
       ELSE IF r.resp = Fault THEN InternalError(r.store, deposit, r.resp)
       ELSE IF r.resp = Absent THEN NotFound(r.store, deposit, r.resp)
       ELSE IF r.resp.created
       THEN Handled(r.store, "200 OK", r.resp.location, ReceiptBody(r.resp),
                    deposit, r.resp)
       ELSE IF r.resp.accepted
       THEN Handled(r.store, "202 Accepted", r.resp.location, ReceiptBody(r.resp),
                    deposit, r.resp)
       ELSE ErrorBody(r.store, deposit, r.resp)

\* DELETE to an Edit-URI
Container_DELETE(st, oid, web) ==
    LET a == authenticate(web)
        invalid == validate_delete_request(web)
        delete == get_delete(web, a.auth)
        r == delete_container(st, oid, delete)
    IN IF ~cfg.allow_delete THEN MethodNotAllowed(st)
       ELSE IF a.raised THEN InternalError(st, Nil, Nil)
       ELSE IF ~Auth_success(a.auth) THEN Unauthorized(st, a)
       ELSE IF invalid # None THEN BadRequest(st)
       ELSE IF ~exists(st, oid) THEN NotFound(st, Nil, Nil)
       ELSE IF r.resp = Fault THEN InternalError(r.store, delete, r.resp)
       ELSE IF r.resp.error_code # None THEN ErrorBody(r.store, delete, r.resp)
       ELSE Handled(r.store, "204 No Content", Nil, Nil, delete, r.resp)

(***************************************************************************)
(* The server as a state machine.  The server takes one request at a time: *)
(* an operation runs from start to end, its request and what it returned   *)
(* stay in last until the client has the response (Respond).               *)
(***************************************************************************)
Packagings == {PackageSimpleZip, PackageBinary, error_content_package}
Contents == {"data"}
Digests == {None, md5_hexdigest("data"), md5_hexdigest("other")}
\* the Auth objects authenticate() gives a request that goes on to the engine
Auths == {Auth(cfg_user, None, FALSE), Auth(cfg_user, cfg_obo, FALSE)}
\* what a request carries: a binary body, an atom entry, or both (multipart)
Bodies ==
    {[content |-> c, atom |-> a] : c \in {None} \cup Contents, a \in {None} \cup AtomDocs}
        \ {[content |-> None, atom |-> None]}

DepositRequests ==
    {[DepositRequest EXCEPT !.packaging = p, !.in_progress = ip, !.auth = auth,
                            !.content_md5 = md5, !.content = body.content,
                            !.atom = body.atom] :
        p \in Packagings, ip \in BOOLEAN, auth \in Auths, md5 \in Digests, body \in Bodies}
DeleteRequests ==
    {[DeleteRequest EXCEPT !.in_progress = ip, !.metadata_relevant = mr, !.auth = auth] :
        ip \in BOOLEAN, mr \in BOOLEAN, auth \in Auths}
\* web.input() of a request that is not multipart
NoParts == [name \in {} |-> None]
WebRequests ==
    [HTTP_AUTHORIZATION : {Nil, <<cfg_user, cfg_password>>, <<cfg_user, "guess">>},
     HTTP_ON_BEHALF_OF : {None, cfg_obo, "stranger"},
     HTTP_PACKAGING : {None, PackageSimpleZip},
     HTTP_IN_PROGRESS : {None, "true", "false", "maybe"},
     HTTP_METADATA_RELEVANT : {None},
     HTTP_CONTENT_MD5 : {None},
     HTTP_SLUG : {None},
     CONTENT_TYPE : {None},
     input : {NoParts},
     data : Contents]

Targets == Collections \X Ids
\* datetime.now(): the clock does not run backwards
Now == {Time(sec, 0) : sec \in {clock, clock + 1}}
\* datetime.now() of requests that come a second apart
Later == {Time(clock + 1, 0)}
\* uuid4() gives an id no container has
uuid4(collection) == {id \in Ids : <<collection, id>> \notin DOMAIN store}

Idle ==
    [handler |-> None, op |-> None, target |-> Nil, web |-> Nil, req |-> Nil,
     resp |-> [class |-> "Idle"], status |-> None, location |-> Nil, body |-> Nil]

Init ==
    /\ store = [oid \in {} |-> EmptyContainer]
    /\ cfg \in {[Configuration EXCEPT !.mediation = m, !.authenticate = a] :
                    m \in BOOLEAN, a \in BOOLEAN}
    /\ clock = 0
    /\ ops = 0
    /\ last = Idle
    /\ stmt = Nil
    /\ xml = Nil
    /\ loaded = Nil
    /\ neg = Nil
    /\ rc = Nil
    /\ um = Nil
    /\ th = Nil

\* the server is free to take a request
Ready == last = Idle /\ ops < MaxOps

\* one call of an engine method, r what it leaves and returns
Call(op, target, req, now, r) ==
    /\ store' = r.store
    /\ last' = [Idle EXCEPT !.op = op, !.target = target, !.req = req, !.resp = r.resp]
    /\ clock' = now.sec
    /\ ops' = ops + 1
    /\ UNCHANGED <<cfg, stmt, xml, loaded, neg, rc, um, th>>

DepositNew ==
    Ready /\
    \E collection \in Collections \cup {NoCollection}, deposit \in DepositRequests,
       now \in Now :
        \E uuid \in (IF deposit.slug # None THEN {None} ELSE uuid4(collection)) :
            Call("deposit_new", <<collection>>, deposit, now,
                 deposit_new(store, collection, deposit, now, uuid))

Replace ==
    Ready /\
    \E oid \in Targets, deposit \in DepositRequests, now \in Now :
        Call("replace", oid, deposit, now, replace(store, oid, deposit, now))

DeleteContent ==
    Ready /\
    \E oid \in Targets, delete \in DeleteRequests, now \in Now :
        Call("delete_content", oid, delete, now, delete_content(store, oid, delete, now))

AddContent ==
    Ready /\
    \E oid \in Targets, deposit \in DepositRequests, now \in Now :
        Call("add_content", oid, deposit, now, add_content(store, oid, deposit, now))

DepositExisting ==
    Ready /\
    \E oid \in Targets, deposit \in DepositRequests, now \in Now :
        Call("deposit_existing", oid, deposit, now,
             deposit_existing(store, oid, deposit, now))

UpdateMetadata ==
    Ready /\
    \E oid \in Targets, deposit \in DepositRequests, now \in Now :
        Call("update_metadata", oid, deposit, now,
             update_metadata(store, oid, deposit, now))

DeleteContainer ==
    Ready /\
    \E oid \in Targets, delete \in DeleteRequests, now \in Now :
        Call("delete_container", oid, delete, now, delete_container(store, oid, delete))

\* one request to a handler, h what the handler leaves; op is the engine
\* method the handler calls when the request gets that far
Request(handler, op, target, web, now, h) ==
    /\ store' = h.store
    /\ last' = [Idle EXCEPT !.handler = handler,
                            !.op = IF h.deposit # Nil THEN op ELSE None,
                            !.target = target,
                            !.web = web,
                            !.req = h.deposit,
                            !.resp = IF h.deposit # Nil THEN h.result ELSE @,
                            !.status = h.status,
                            !.location = h.location,
                            !.body = h.body]
    /\ clock' = now.sec
    /\ ops' = ops + 1
    /\ UNCHANGED <<cfg, stmt, xml, loaded, neg, rc, um, th>>

\* POST to a Col-URI
CollectionPOST ==
    Ready /\
    \E collection \in Collections \cup {NoCollection}, web \in WebRequests, now \in Now :
        \E uuid \in uuid4(collection) :
            Request("Collection.POST", "deposit_new", <<collection>>, web, now,
                    Collection_POST(store, collection, web, now, uuid))

\* the response is with the client; the server waits for the next request
Respond ==
    /\ last # Idle
    /\ last' = Idle
    /\ UNCHANGED <<store, cfg, clock, ops, stmt, xml, loaded, neg, rc, um, th>>

Next ==
    \/ DepositNew
    \/ Replace
    \/ DeleteContent
    \/ AddContent
    \/ DepositExisting
    \/ UpdateMetadata
    \/ DeleteContainer
    \/ CollectionPOST
    \/ Respond

Spec == Init /\ [][Next]_vars

(***************************************************************************)
(* The server with a container in its store: the deposit that made the     *)
(* container is over, the requests that follow delete it and go on asking  *)
(* for it.                                                                 *)
(***************************************************************************)
FirstDeposits ==
    {[DepositRequest EXCEPT !.packaging = PackageSimpleZip, !.in_progress = ip,
                            !.auth = Auth(cfg_user, None, FALSE),
                            !.content = "data", !.atom = atom] :
        ip \in BOOLEAN, atom \in {None} \cup AtomDocs}

DeleteInit ==
    /\ cfg \in {[Configuration EXCEPT !.mediation = m] : m \in BOOLEAN}
    /\ \E collection \in Collections, deposit \in FirstDeposits, id \in Ids :
           store = deposit_new([oid \in {} |-> EmptyContainer], collection, deposit,
                               Time(0, 0), id).store
    /\ clock = 0
    /\ ops = 0
    /\ last = Idle
    /\ stmt = Nil
    /\ xml = Nil
    /\ loaded = Nil
    /\ neg = Nil
    /\ rc = Nil
    /\ um = Nil
    /\ th = Nil

SpecDelete == DeleteInit /\ [][Next]_vars

(***************************************************************************)
(* The server with room for two containers in a collection.  The requests  *)
(* may carry a Slug and may say that their metadata is not relevant; the   *)
(* clock moves on with every request.                                      *)
(***************************************************************************)
StoreIds == {"id1", "id2"}
StoreTargets == Collections \X StoreIds
StoreDeposits ==
    {[DepositRequest EXCEPT !.packaging = PackageSimpleZip, !.metadata_relevant = mr,
                            !.slug = slug, !.auth = Auth(cfg_user, None, FALSE),
                            !.content = body.content, !.atom = body.atom] :
        mr \in BOOLEAN, slug \in {None} \cup StoreIds, body \in Bodies}
Unnamed == {deposit \in StoreDeposits : deposit.slug = None}
StoreDeletes ==
    {[DeleteRequest EXCEPT !.metadata_relevant = mr, !.auth = Auth(cfg_user, None, FALSE)] :
        mr \in BOOLEAN}

StoreDepositNew ==
    Ready /\
    \E collection \in Collections, deposit \in StoreDeposits, now \in Later :
        \E uuid \in (IF deposit.slug # None THEN {None}
                     ELSE {id \in StoreIds : <<collection, id>> \notin DOMAIN store}) :
            Call("deposit_new", <<collection>>, deposit, now,
                 deposit_new(store, collection, deposit, now, uuid))

StoreReplace ==
    Ready /\
    \E oid \in StoreTargets, deposit \in Unnamed, now \in Later :
        Call("replace", oid, deposit, now, replace(store, oid, deposit, now))

StoreDeleteContent ==
    Ready /\
    \E oid \in StoreTargets, delete \in StoreDeletes, now \in Later :
        Call("delete_content", oid, delete, now, delete_content(store, oid, delete, now))

StoreAddContent ==
    Ready /\
    \E oid \in StoreTargets, deposit \in Unnamed, now \in Later :
        Call("add_content", oid, deposit, now, add_content(store, oid, deposit, now))

StoreDepositExisting ==
    Ready /\
    \E oid \in StoreTargets, deposit \in Unnamed, now \in Later :
        Call("deposit_existing", oid, deposit, now,
             deposit_existing(store, oid, deposit, now))

StoreUpdateMetadata ==
    Ready /\
    \E oid \in StoreTargets, deposit \in Unnamed, now \in Later :
        Call("update_metadata", oid, deposit, now,
             update_metadata(store, oid, deposit, now))

StoreDeleteContainer ==
    Ready /\
    \E oid \in StoreTargets, delete \in StoreDeletes, now \in Later :
        Call("delete_container", oid, delete, now, delete_container(store, oid, delete))

StoreNext ==
    \/ StoreDepositNew
    \/ StoreReplace
    \/ StoreDeleteContent
    \/ StoreAddContent
    \/ StoreDepositExisting
    \/ StoreUpdateMetadata
    \/ StoreDeleteContainer
    \/ Respond

SpecStore == DeleteInit /\ [][StoreNext]_vars

(***************************************************************************)
(* Two requests at a time.  The web server hands each request to a thread  *)
(* of its own and the engine takes no lock, so the calls of two engine     *)
(* operations on one container interleave.  th.run[t] is what thread t has *)
(* in hand: the operation, its request, where it stands (pc), the          *)
(* Statement object and the stored file name it has so far, and what it    *)
(* returned.  A step is a run of calls up to and with one write to the     *)
(* store: the checks and load_statement or remove_content, the content     *)
(* (store_atom, store_content, ingest), store_statement, and               *)
(* store_deposit_receipt.  th.overlapped records that a thread started     *)
(* while the other was under way.                                          *)
(***************************************************************************)
Threads == {1, 2}
Shared == <<"col1", "id1">>
Free ==
    [pc |-> "free", op |-> None, req |-> Nil, s |-> Nil, ufn |-> None,
     resp |-> [class |-> "Idle"]]
ThreadDeposits(t) ==
    {[DepositRequest EXCEPT !.packaging = PackageSimpleZip, !.in_progress = ip,
                            !.auth = Auth(cfg_user, None, FALSE), !.content = "data",
                            !.filename = IF t = 1 THEN "a.zip" ELSE "b.zip"] :
        ip \in BOOLEAN}
\* both requests arrive in the same second
Arrival == Time(1, 0)
Busy(t) == th.run[t].pc \notin {"free", "done"}

ThreadsInit ==
    /\ cfg = Configuration
    /\ \E deposit \in FirstDeposits :
           store = deposit_new([oid \in {} |-> EmptyContainer], Shared[1], deposit,
                               Time(0, 0), Shared[2]).store
    /\ clock = 1
    /\ ops = 0
    /\ last = Idle
    /\ stmt = Nil
    /\ xml = Nil
    /\ loaded = Nil
    /\ neg = Nil
    /\ rc = Nil
    /\ um = Nil
    /\ th = [run |-> [t \in Threads |-> Free], overlapped |-> FALSE]

\* thread t moves on; the variables of the other specifications stay
Step(t, run, st) ==
    /\ th' = [th EXCEPT !.run[t] = run]
    /\ store' = st
    /\ UNCHANGED <<cfg, clock, ops, last, stmt, xml, loaded, neg, rc, um>>
\* thread t takes a request
Start(t, run, st) ==
    /\ th' = [th EXCEPT !.run[t] = run,
                        !.overlapped = @ \/ \E u \in Threads \ {t} : Busy(u)]
    /\ store' = st
    /\ UNCHANGED <<cfg, clock, ops, last, stmt, xml, loaded, neg, rc, um>>
Finished(run, resp) == [run EXCEPT !.pc = "done", !.resp = resp]

\* deposit_existing up to s = self.dao.load_statement(collection, id)
ExistingLoad(t) ==
    /\ th.run[t].pc = "free"
    /\ \E deposit \in ThreadDeposits(t) :
        LET er == check_deposit_errors(deposit)
            run == [Free EXCEPT !.op = "deposit_existing", !.req = deposit]
        IN Start(t,
                 IF er # NoError THEN Finished(run, er)
                 ELSE IF ~exists(store, Shared) THEN Finished(run, Absent)
                 ELSE IF ~statement_loadable(store, Shared[1], Shared[2])
                 THEN Finished(run, Fault)
                 ELSE [run EXCEPT !.pc = "loaded",
                                  !.s = load_statement(store, Shared[1], Shared[2])],
                 store)

\* deposit_existing: store_atom, store_content and the ingester
ExistingContent(t) ==
    /\ th.run[t].pc = "loaded"
    /\ LET run == th.run[t]
           deposit == run.req
           s2 == IF deposit.atom # None
                 THEN store_atom(store, Shared[1], Shared[2], deposit.atom).store
                 ELSE store
           sc == store_content(s2, Shared[1], Shared[2], deposit.content,
                               deposit.filename, Arrival)
           pclass == IF deposit.packaging \in DOMAIN package_ingesters
                     THEN package_ingesters[deposit.packaging] ELSE None
           ig == IF pclass # None
                 THEN ingest(pclass, sc.store, Shared[1], Shared[2], sc.ufn,
                             deposit.metadata_relevant)
                 ELSE [store |-> sc.store, ok |-> TRUE]
       IN Step(t,
               IF ~ig.ok THEN Finished(run, Fault)
               ELSE [run EXCEPT !.pc = "stored", !.ufn = sc.ufn],
               ig.store)

\* deposit_existing: s.original_deposit(...), s.in_progress, store_statement
ExistingStatement(t) ==
    /\ th.run[t].pc = "stored"
    /\ th.run[t].op = "deposit_existing"
    /\ LET run == th.run[t]
           deposit == run.req
           appended == original_deposit(run.s, part_uri(Shared[1], Shared[2], run.ufn),
                                        Arrival, deposit.packaging, auth_by(deposit),
                                        auth_obo(deposit))
           s == [appended EXCEPT !.in_progress = deposit.in_progress]
       IN Step(t, [run EXCEPT !.pc = "stated", !.s = s],
               store_statement(store, Shared[1], Shared[2], s))

\* replace up to self.dao.remove_content(...)
ReplaceRemove(t) ==
    /\ th.run[t].pc = "free"
    /\ \E deposit \in ThreadDeposits(t) :
        LET er == check_deposit_errors(deposit)
            run == [Free EXCEPT !.op = "replace", !.req = deposit]
        IN IF er # NoError THEN Start(t, Finished(run, er), store)
           ELSE IF ~exists(store, Shared) THEN Start(t, Finished(run, Absent), store)
           ELSE Start(t, [run EXCEPT !.pc = "removed"],
                      remove_content(store, Shared[1], Shared[2],
                                     deposit.metadata_relevant))

\* replace: store_content and the ingester
ReplaceContent(t) ==
    /\ th.run[t].pc = "removed"
    /\ LET run == th.run[t]
           deposit == run.req
           sc == store_content(store, Shared[1], Shared[2], deposit.content,
                               deposit.filename, Arrival)
           ig == ingest(package_ingesters[deposit.packaging], sc.store, Shared[1],
                        Shared[2], sc.ufn, deposit.metadata_relevant)
       IN IF deposit.packaging \notin DOMAIN package_ingesters
          THEN Step(t, Finished(run, Fault), sc.store)
          ELSE Step(t,
                    IF ~ig.ok THEN Finished(run, Fault)
                    ELSE [run EXCEPT !.pc = "stored", !.ufn = sc.ufn],
                    ig.store)

\* replace: s = Statement() ... store_statement
ReplaceStatement(t) ==
    /\ th.run[t].pc = "stored"
    /\ th.run[t].op = "replace"
    /\ LET run == th.run[t]
           s == new_statement(Shared[1], Shared[2], run.req,
                              part_uri(Shared[1], Shared[2], run.ufn), Arrival)
       IN Step(t, [run EXCEPT !.pc = "stated", !.s = s],
               store_statement(store, Shared[1], Shared[2], s))

\* a receipt built from a Statement() that was given nothing
thread_receipt_blank(run) ==
    deposit_receipt(Shared[1], Shared[2], run.req, Statement, Nil, Arrival)

\* the receipt the operation builds from the Statement object it holds
thread_receipt(run) ==
    deposit_receipt(Shared[1], Shared[2], run.req, run.s, Nil, Arrival)

\* deposit_existing and replace: deposit_receipt, store_deposit_receipt, return
StoreReceipt(t) ==
    /\ th.run[t].pc = "stated"
    /\ LET run == th.run[t]
           receipt == thread_receipt(run)
       IN Step(t, Finished(run, deposited(receipt, Nil, run.req.in_progress)),
               store_deposit_receipt(store, Shared[1], Shared[2], receipt))

ThreadsNext ==
    \E t \in Threads :
        \/ ExistingLoad(t)
        \/ ExistingContent(t)
        \/ ExistingStatement(t)
        \/ ReplaceRemove(t)
        \/ ReplaceContent(t)
        \/ ReplaceStatement(t)
        \/ StoreReceipt(t)

SpecThreads == ThreadsInit /\ [][ThreadsNext]_vars

(***************************************************************************)
(* The HTTP interface: every handler that deposits or deletes, under each  *)
(* configuration that differs from the shipped one in a single switch.     *)
(***************************************************************************)
HttpConfigurations ==
    {Configuration,
     [Configuration EXCEPT !.authenticate = FALSE],
     [Configuration EXCEPT !.allow_update = FALSE],
     [Configuration EXCEPT !.allow_delete = FALSE],
     [Configuration EXCEPT !.return_deposit_receipt = FALSE]}

\* Authorization (decoded and split at ':') with On-Behalf-Of
Credentials ==
    {<<Nil, None>>,
     <<<<cfg_user, cfg_password>>, None>>,
     <<<<cfg_user, cfg_password>>, cfg_obo>>,
     <<<<cfg_user, cfg_password>>, "stranger">>,
     <<<<cfg_user, "guess">>, None>>,
     <<<<cfg_user, "gu", "ess">>, None>>}

\* the parts of a multipart request, by the name of their Content-Disposition
Part == ("atom" :> CHOOSE doc \in AtomDocs : TRUE) @@ ("payload" :> "ZGF0YQ==")
            @@ ("file" :> "ZGF0YQ==") @@ ("notes" :> "ZGF0YQ==")
Parts(names) == [name \in names |-> Part[name]]
Multiparts ==
    {Parts(names) : names \in {{"atom", "payload"}, {"atom", "file"}, {"file", "notes"},
                               {"payload"}, {"atom", "payload", "file"}}}
\* a binary body, an atom entry, or a multipart body
HttpBodies ==
    {[CONTENT_TYPE |-> None, input |-> NoParts, data |-> c] : c \in Contents}
    \cup {[CONTENT_TYPE |-> "application/atom+xml", input |-> NoParts, data |-> doc] :
             doc \in AtomDocs}
    \cup {[CONTENT_TYPE |-> "multipart/related", input |-> parts, data |-> "--parts--"] :
             parts \in Multiparts}

HttpRequests ==
    {[HTTP_AUTHORIZATION |-> c[1], HTTP_ON_BEHALF_OF |-> c[2], HTTP_PACKAGING |-> p,
      HTTP_IN_PROGRESS |-> ip, HTTP_METADATA_RELEVANT |-> None, HTTP_CONTENT_MD5 |-> None,
      HTTP_SLUG |-> None, CONTENT_TYPE |-> b.CONTENT_TYPE, input |-> b.input,
      data |-> b.data] :
        c \in Credentials, p \in {None, PackageSimpleZip}, ip \in {None, "true"},
        b \in HttpBodies}

HttpInit ==
    /\ store = [oid \in {} |-> EmptyContainer]
    /\ cfg \in HttpConfigurations
    /\ clock = 0
    /\ ops = 0
    /\ last = Idle
    /\ stmt = Nil
    /\ xml = Nil
    /\ loaded = Nil
    /\ neg = Nil
    /\ rc = Nil
    /\ um = Nil
    /\ th = Nil

HttpCollectionPOST ==
    Ready /\
    \E collection \in Collections \cup {NoCollection}, web \in HttpRequests, now \in Later :
        \E uuid \in uuid4(collection) :
            Request("Collection.POST", "deposit_new", <<collection>>, web, now,
                    Collection_POST(store, collection, web, now, uuid))

MediaResourcePUT ==
    Ready /\
    \E oid \in Targets, web \in HttpRequests, now \in Later :
        Request("MediaResource.PUT", "replace", oid, web, now,
                MediaResource_PUT(store, oid, web, now))

MediaResourceDELETE ==
    Ready /\
    \E oid \in Targets, web \in HttpRequests, now \in Later :
        Request("MediaResource.DELETE", "delete_content", oid, web, now,
                MediaResource_DELETE(store, oid, web, now))

MediaResourcePOST ==
    Ready /\
    \E oid \in Targets, web \in HttpRequests, now \in Later :
        Request("MediaResource.POST", "add_content", oid, web, now,
                MediaResource_POST(store, oid, web, now))

ContainerPOST ==
    Ready /\
    \E oid \in Targets, web \in HttpRequests, now \in Later :
        Request("Container.POST", "deposit_existing", oid, web, now,
                Container_POST(store, oid, web, now))

ContainerPUT ==
    Ready /\
    \E oid \in Targets, web \in HttpRequests, now \in Later :
        Request("Container.PUT", "update_metadata", oid, web, now,
                Container_PUT(store, oid, web, now))

ContainerDELETE ==
    Ready /\
    \E oid \in Targets, web \in HttpRequests, now \in Later :
        Request("Container.DELETE", "delete_container", oid, web, now,
                Container_DELETE(store, oid, web))

HttpNext ==
    \/ HttpCollectionPOST
    \/ MediaResourcePUT
    \/ MediaResourceDELETE
    \/ MediaResourcePOST
    \/ ContainerPOST
    \/ ContainerPUT
    \/ ContainerDELETE
    \/ Respond

SpecHttp == HttpInit /\ [][HttpNext]_vars

(***************************************************************************)
(* deposit_receipt called twice by one caller.  The metadata argument is a *)
(* dict the method fills in place, so the second call gets the dict as the *)
(* first call left it (None stays None: the method then fills a dict of    *)
(* its own).  A metadata of None and an empty dict are both the empty map  *)
(* here; is_none tells which one the caller holds.                         *)
(***************************************************************************)
MetadataFields ==
    ("title" :> "A Title") @@ ("creator" :> "A Creator") @@ ("abstract" :> "An abstract")
        @@ ("identifier" :> "urn:x")
MetadataMaps ==
    {[k \in keys |-> MetadataFields[k]] : keys \in SUBSET DOMAIN MetadataFields}
\* the caller's metadata after a call of deposit_receipt
metadata_after(metadata, is_none) == IF is_none THEN Nil ELSE receipt_metadata(metadata)

ReceiptInputs ==
    {[collection |-> oid[1], id |-> oid[2], deposit |-> deposit,
      statement |-> new_statement(oid[1], oid[2], deposit,
                                  IF part THEN part_uri(oid[1], oid[2], "example.zip") ELSE Nil,
                                  Time(0, 0)),
      metadata |-> m.metadata, is_none |-> m.is_none] :
        oid \in (Collections \cup {NoCollection}) \X Ids,
        deposit \in {[DepositRequest EXCEPT !.in_progress = ip] : ip \in BOOLEAN},
        part \in BOOLEAN,
        m \in {[metadata |-> md, is_none |-> FALSE] : md \in MetadataMaps}
                 \cup {[metadata |-> Nil, is_none |-> TRUE]}}

ReceiptInit ==
    /\ rc \in {[calls |-> 0, in |-> in, held |-> in.metadata, first |-> Nil, second |-> Nil,
                 now |-> Time(0, 0)] : in \in ReceiptInputs}
    /\ store = [oid \in {} |-> EmptyContainer]
    /\ cfg = Configuration
    /\ clock = 0
    /\ ops = 0
    /\ last = Idle
    /\ stmt = Nil
    /\ xml = Nil
    /\ loaded = Nil
    /\ neg = Nil
    /\ um = Nil
    /\ th = Nil

FirstReceipt ==
    /\ rc.calls = 0
    /\ \E now \in Now :
        /\ rc' = [rc EXCEPT !.calls = 1,
                            !.first = deposit_receipt(rc.in.collection, rc.in.id, rc.in.deposit,
                                                      rc.in.statement, rc.held, now),
                            !.held = metadata_after(rc.held, rc.in.is_none)]
        /\ clock' = now.sec
    /\ UNCHANGED <<store, cfg, ops, last, stmt, xml, loaded, neg, um, th>>

SecondReceipt ==
    /\ rc.calls = 1
    /\ \E now \in Now :
        /\ rc' = [rc EXCEPT !.calls = 2,
                            !.second = deposit_receipt(rc.in.collection, rc.in.id, rc.in.deposit,
                                                       rc.in.statement, rc.held, now),
                            !.held = metadata_after(rc.held, rc.in.is_none),
                            !.now = now]
        /\ clock' = now.sec
    /\ UNCHANGED <<store, cfg, ops, last, stmt, xml, loaded, neg, um, th>>

ReceiptNext ==
    \/ FirstReceipt
    \/ SecondReceipt

SpecReceipt == ReceiptInit /\ [][ReceiptNext]_vars

(***************************************************************************)
(* The URIs of the URIManager by role.  The id of a container is the Slug  *)
(* of the deposit that made it, or a uuid; a collection URI has no id.     *)
(***************************************************************************)
Roles ==
    {"collection", "edit", "edit-media", "edit-media-feed", "content", "aggregation",
     "statement-atom", "statement-rdf", "splash", "atom-id"}
\* the URI the server gives out for a role
role_uri(collection, id, role) ==
    CASE role = "collection" -> col_uri(collection)
      [] role = "edit" -> edit_uri(collection, id)
      [] role = "edit-media" -> em_uri(collection, id)
      [] role = "edit-media-feed" -> <<em_uri(collection, id)[1] \o ".atom">>
      [] role = "content" -> cont_uri(collection, id)
      [] role = "aggregation" -> agg_uri(collection, id)
      [] role = "statement-atom" -> state_uri(collection, id, "atom")
      [] role = "statement-rdf" -> state_uri(collection, id, "ore")
      [] role = "splash" -> html_url(collection, id)
      [] role = "atom-id" -> atom_id(collection, id)

Slugs == {"id1", "id2", "id1.atom", "id1.rdf"}
Triples ==
    {<<collection, id, role>> :
        collection \in Collections \cup {NoCollection}, id \in Slugs,
        role \in Roles \ {"collection"}}
    \cup {<<collection, None, "collection">> : collection \in Collections \cup {NoCollection}}

UriInit ==
    /\ um = [calls |-> 0, first |-> Nil, second |-> Nil, uri1 |-> Nil, uri2 |-> Nil]
    /\ th = Nil
    /\ store = [oid \in {} |-> EmptyContainer]
    /\ cfg = Configuration
    /\ clock = 0
    /\ ops = 0
    /\ last = Idle
    /\ stmt = Nil
    /\ xml = Nil
    /\ loaded = Nil
    /\ neg = Nil
    /\ rc = Nil

\* the URIs of two triples, asked for one after the other
FirstUri ==
    /\ um.calls = 0
    /\ \E t \in Triples :
        um' = [um EXCEPT !.calls = 1, !.first = t, !.uri1 = role_uri(t[1], t[2], t[3])]
    /\ UNCHANGED <<store, cfg, clock, ops, last, stmt, xml, loaded, neg, rc, th>>

SecondUri ==
    /\ um.calls = 1
    /\ \E t \in Triples :
        um' = [um EXCEPT !.calls = 2, !.second = t, !.uri2 = role_uri(t[1], t[2], t[3])]
    /\ UNCHANGED <<store, cfg, clock, ops, last, stmt, xml, loaded, neg, rc, th>>

UriNext ==
    \/ FirstUri
    \/ SecondUri

SpecUri == UriInit /\ [][UriNext]_vars

(***************************************************************************)
(* Statement (src/sss/core.py): the Statement with its plain aggregates.   *)
(* Here a URI is a string and an attribute that is not set is None.        *)
(***************************************************************************)
core_Statement ==
    [aggregation_uri |-> None, rem_uri |-> None, original_deposits |-> <<>>,
     aggregates |-> <<>>, in_progress |-> FALSE]

core_original_deposit(s, uri, deposit_time, packaging_format, by, obo) ==
    [s EXCEPT !.original_deposits =
        Append(@, <<uri, deposit_time, packaging_format, by, obo>>)]

Has(seq, x) == \E i \in 1 .. Len(seq) : seq[i] = x

RECURSIVE core_add_normalised_aggregations(_, _)
core_add_normalised_aggregations(s, aggs) ==
    IF aggs = <<>> THEN s
    ELSE core_add_normalised_aggregations(
             IF Has(s.aggregates, Head(aggs)) THEN s
             ELSE [s EXCEPT !.aggregates = Append(@, Head(aggs))],
             Tail(aggs))

core_state_uri(s) == IF s.in_progress THEN in_progress_uri[1] ELSE archived_uri[1]

core_deposit_description(od) ==
    Description(od[1],
        <<Element("sword:packaging", od[3], None),
          Element("sword:depositedOn", None, strftime(od[2])),
          Element("sword:depositedBy", None, od[4])>>
        \o (IF od[5] # None
            THEN <<Element("sword:depositedOnBehalfOf", None, od[5])>> ELSE <<>>))

core_get_rdf_xml(s) ==
    <<Description(s.rem_uri, <<Element("ore:describes", s.aggregation_uri, None)>>),
      Description(s.aggregation_uri,
          <<Element("ore:isDescribedBy", s.rem_uri, None)>>
          \o [i \in 1 .. Len(s.aggregates) |->
                Element("ore:aggregates", s.aggregates[i], None)]
          \o [i \in 1 .. 2 * Len(s.original_deposits) |->
                IF i % 2 = 1
                THEN Element("ore:aggregates", s.original_deposits[(i + 1) \div 2][1], None)
                ELSE Element("sword:originalDeposit", s.original_deposits[i \div 2][1], None)]
          \o <<Element("sword:state", core_state_uri(s), None)>>)>>
    \o [i \in 1 .. Len(s.original_deposits) |->
          core_deposit_description(s.original_deposits[i])]
    \o <<Description(core_state_uri(s),
          <<Element("sword:stateDescription", None, states(<<core_state_uri(s)>>))>>)>>

\* set(name, None) raises TypeError
core_serialisable(s) == s.aggregation_uri # None /\ s.rem_uri # None

IsAggregates(e) == e.tag = "ore:aggregates"

\* the rdf:resource of every ore:aggregates of the Descriptions doc[1..n], in order
RECURSIVE core_load_aggs(_, _)
core_load_aggs(doc, n) ==
    IF n = 0 THEN <<>>
    ELSE LET found == SelectSeq(doc[n].children, IsAggregates)
         IN core_load_aggs(doc, n - 1) \o [i \in 1 .. Len(found) |-> found[i].resource]

\* the original deposits of the Descriptions doc[1..n] that carry a sword:packaging
RECURSIVE core_load_deposits(_, _)
core_load_deposits(doc, n) ==
    IF n = 0 THEN <<>>
    ELSE LET desc == doc[n]
             rest == core_load_deposits(doc, n - 1)
         IN IF HasTag(desc, "sword:packaging")
               /\ LastChild(desc, "sword:packaging").resource # None
            THEN Append(rest,
                   <<desc.about,
                     IF HasTag(desc, "sword:depositedOn")
                     THEN strptime(LastChild(desc, "sword:depositedOn").text) ELSE NoTime,
                     LastChild(desc, "sword:packaging").resource,
                     IF HasTag(desc, "sword:depositedBy")
                     THEN LastChild(desc, "sword:depositedBy").text ELSE None,
                     IF HasTag(desc, "sword:depositedOnBehalfOf")
                     THEN LastChild(desc, "sword:depositedOnBehalfOf").text ELSE None>>)
            ELSE rest

NotIn(seq, excluded) ==
    LET Kept(x) == \A i \in 1 .. Len(excluded) : excluded[i][1] # x
    IN SelectSeq(seq, Kept)

\* core_load with the two URIs of ore:describes exchanged, as src/sss.py reads them
core_load_exchanged(doc) ==
    LET ods == core_load_deposits(doc, Len(doc))
    IN [aggregation_uri |->
           IF AnyDescription(doc, "ore:describes")
           THEN LastDescription(doc, "ore:describes").about ELSE None,
        rem_uri |->
           IF AnyDescription(doc, "ore:describes")
           THEN LastChild(LastDescription(doc, "ore:describes"), "ore:describes").resource
           ELSE None,
        original_deposits |-> ods,
        aggregates |-> NotIn(core_load_aggs(doc, Len(doc)), ods),
        in_progress |->
           IF AnyDescription(doc, "sword:state")
           THEN LastChild(LastDescription(doc, "sword:state"), "sword:state").resource
                   = in_progress_uri[1]
           ELSE FALSE]

\* Statement.load of src/sss/core.py, on a new Statement()
core_load(doc) ==
    LET ods == core_load_deposits(doc, Len(doc))
    IN [aggregation_uri |->
           IF AnyDescription(doc, "ore:describes")
           THEN LastChild(LastDescription(doc, "ore:describes"), "ore:describes").resource
           ELSE None,
        rem_uri |->
           IF AnyDescription(doc, "ore:describes")
           THEN LastDescription(doc, "ore:describes").about ELSE None,
        original_deposits |-> ods,
        aggregates |-> NotIn(core_load_aggs(doc, Len(doc)), ods),
        in_progress |->
           IF AnyDescription(doc, "sword:state")
           THEN LastChild(LastDescription(doc, "sword:state"), "sword:state").resource
                   = in_progress_uri[1]
           ELSE FALSE]

(***************************************************************************)
(* A Statement is built, written as RDF/XML, and read into a new one.      *)
(***************************************************************************)
Uris == {"part-uri/1", "part-uri/2"}
AggregateUris == {"part-uri/2", "part-uri/3"}
DepositTimes == {Time(0, 0), Time(1, 0), Time(1, 500000)}
\* packaging, by and on-behalf-of of a deposit
Depositors == {<<PackageSimpleZip, cfg_user, None>>, <<PackageBinary, cfg_user, cfg_obo>>}
SerialiseFault == <<"TypeError">>

StatementInit ==
    /\ stmt = core_Statement
    /\ xml = Nil
    /\ loaded = Nil
    /\ store = [oid \in {} |-> EmptyContainer]
    /\ cfg = Configuration
    /\ clock = 0
    /\ ops = 0
    /\ last = Idle
    /\ neg = Nil
    /\ rc = Nil
    /\ um = Nil
    /\ th = Nil

SetUris ==
    /\ xml = Nil
    /\ stmt.aggregation_uri = None
    /\ stmt' = [stmt EXCEPT !.aggregation_uri = "agg-uri", !.rem_uri = "edit-uri"]
    /\ UNCHANGED <<xml, loaded, store, cfg, clock, ops, last, neg, rc, um, th>>

OriginalDeposit ==
    /\ xml = Nil
    /\ Len(stmt.original_deposits) < MaxDeposits
    /\ \E uri \in Uris, deposit_time \in DepositTimes, who \in Depositors :
          stmt' = core_original_deposit(stmt, uri, deposit_time, who[1], who[2], who[3])
    /\ UNCHANGED <<xml, loaded, store, cfg, clock, ops, last, neg, rc, um, th>>

AddNormalisedAggregations ==
    /\ xml = Nil
    /\ \E a \in AggregateUris, b \in AggregateUris :
          /\ stmt' = core_add_normalised_aggregations(stmt, <<a, b>>)
          /\ Len(stmt'.aggregates) <= MaxAggregates
          /\ stmt' # stmt
    /\ UNCHANGED <<xml, loaded, store, cfg, clock, ops, last, neg, rc, um, th>>

SetInProgress ==
    /\ xml = Nil
    /\ ~stmt.in_progress
    /\ stmt' = [stmt EXCEPT !.in_progress = TRUE]
    /\ UNCHANGED <<xml, loaded, store, cfg, clock, ops, last, neg, rc, um, th>>

Serialise ==
    /\ xml = Nil
    /\ xml' = IF core_serialisable(stmt) THEN core_get_rdf_xml(stmt) ELSE SerialiseFault
    /\ UNCHANGED <<stmt, loaded, store, cfg, clock, ops, last, neg, rc, um, th>>

Load ==
    /\ xml # Nil
    /\ xml # SerialiseFault
    /\ loaded = Nil
    /\ loaded' = core_load(xml)
    /\ UNCHANGED <<stmt, xml, store, cfg, clock, ops, last, neg, rc, um, th>>

StatementNext ==
    \/ SetUris
    \/ OriginalDeposit
    \/ AddNormalisedAggregations
    \/ SetInProgress
    \/ Serialise
    \/ Load

SpecStatement == StatementInit /\ [][StatementNext]_vars

(***************************************************************************)
(* Content negotiation.  A ContentType is the record of its four           *)
(* properties.  An Accept header is the sequence of its comma-separated    *)
(* parts, a part the sequence of its ";"-separated components: first the   *)
(* media type as split("/", 1) cuts it (<<type, subtype>>, or <<text>>     *)
(* when there is no "/"), then components name=value.  A header that was   *)
(* not sent is Nil.  A q value read from the header stays the string it    *)
(* was; a q value the analysis computes is a float, here in tenths.        *)
(***************************************************************************)
ContentType(type, subtype, params, packaging) ==
    [type |-> type, subtype |-> subtype, params |-> params, packaging |-> packaging]

mimetype(ct) == <<ct.type, ct.subtype, ct.params>>
media_format(ct) == <<mimetype(ct), ct.packaging>>

matches(self, other, packaging_wildcard) ==
    LET tmatch == self.type = "*" \/ other.type = "*" \/ self.type = other.type
        smatch == self.subtype = "*" \/ other.subtype = "*" \/ self.subtype = other.subtype
        pmatch == self.params = None \/ other.params = None \/ self.params = other.params
        packmatch == IF packaging_wildcard
                     THEN \/ self.packaging = None
                          \/ other.packaging = None
                          \/ self.packaging = other.packaging
                     ELSE self.packaging = other.packaging
    IN tmatch /\ smatch /\ pmatch /\ packmatch

\* __eq__: two content types are equal when their media formats are
ContentType_eq(a, b) == media_format(a) = media_format(b)

\* the text of a component, name=value
Component(name, value) == [name |-> name, value |-> value]
text(c) == c.name \o "=" \o c.value
startswith_q(c) == c.name = "q"
\* what the names longer than one letter leave behind the slice [2:]
Sliced == ("type" :> "pe")
\* text(c)[2:]: the value when the name is one letter long
slice2(c) == IF c.name \in DOMAIN Sliced THEN Sliced[c.name] \o "=" \o c.value ELSE c.value

\* float(): the strings it reads, in tenths; any other string is a ValueError
float == ("0.5" :> 5) @@ ("0.8" :> 8) @@ ("1.0" :> 10)
\* Python 2 orders strings by their characters: the position in this list
StringOrder == <<"0.5", "0.8", "1.0">>
StringRank(s) == CHOOSE i \in 1 .. Len(StringOrder) : StringOrder[i] = s

\* the q a part states, as the string it is written with; None when it states none
StatedQ(part) ==
    IF Len(part) = 2 /\ startswith_q(part[2]) THEN part[2].value
    ELSE IF Len(part) = 3 THEN slice2(part[2])
    ELSE None

part_params(part) ==
    IF Len(part) = 2 /\ ~startswith_q(part[2]) THEN text(part[2])
    ELSE IF Len(part) = 3 THEN text(part[2])
    ELSE None

\* float(q) or the unpacking of type.split("/", 1) raises ValueError
analyse_accept_raises(accept) ==
    \E i \in 1 .. Len(accept) :
        \/ StatedQ(accept[i]) # None /\ StatedQ(accept[i]) \notin DOMAIN float
        \/ Len(accept[i][1]) # 2

highest_q(accept) ==
    LET qs == {float[StatedQ(accept[i])] : i \in {j \in 1 .. Len(accept) :
                                                   StatedQ(accept[j]) # None}}
    IN IF qs = {} THEN 0 ELSE CHOOSE q \in qs : \A r \in qs : r <= q

\* the key a part is filed under: its own q string, or the computed q, where
\* (-1 * q) / counter divides two integers
accept_key(accept, i) ==
    LET counter == Len(accept)
        q_range == 10 - highest_q(accept)
    IN IF StatedQ(accept[i]) # None THEN <<"str", StatedQ(accept[i])>>
       ELSE <<"float", (10 - q_range) + ((i \div counter) * q_range)>>

accept_type(accept, i, packaging) ==
    ContentType(accept[i][1][1], accept[i][1][2], part_params(accept[i]), packaging)

\* the dictionary: each key with the content types filed under it, in the
\* order of the header
analyse_accept(accept, packaging) ==
    LET keys == {accept_key(accept, i) : i \in 1 .. Len(accept)}
        filed(k) == SelectSeq([i \in 1 .. Len(accept) |-> i],
                              LAMBDA i : accept_key(accept, i) = k)
    IN [k \in keys |-> [n \in 1 .. Len(filed(k)) |->
                            accept_type(accept, filed(k)[n], packaging)]]

\* the order of sort(reverse=True): a string is above every number
key_above(a, b) ==
    IF a[1] = "str" /\ b[1] = "str" THEN StringRank(a[2]) > StringRank(b[2])
    ELSE IF a[1] = "float" /\ b[1] = "float" THEN a[2] > b[2]
    ELSE a[1] = "str"

\* contains_match returning the last match of the list
contains_match_last(source, target) ==
    LET hits == {i \in 1 .. Len(target) : matches(source, target[i], FALSE)}
    IN IF hits = {} THEN Nil ELSE target[CHOOSE i \in hits : \A j \in hits : j <= i]

contains_match(source, target) ==
    LET hits == {i \in 1 .. Len(target) : matches(source, target[i], FALSE)}
    IN IF hits = {} THEN Nil ELSE target[CHOOSE i \in hits : \A j \in hits : i <= j]

\* the matches of the possibilities filed under one key
allowable(possibilities, server) ==
    LET found == [n \in 1 .. Len(possibilities) |-> contains_match(possibilities[n], server)]
    IN SelectSeq(found, LAMBDA m : m # Nil)

\* the first server type that is in the allowable list
server_preferred(allowed, server) ==
    LET hits == {i \in 1 .. Len(server) :
                    \E n \in 1 .. Len(allowed) : ContentType_eq(server[i], allowed[n])}
    IN server[CHOOSE i \in hits : \A j \in hits : i <= j]

RECURSIVE get_acceptable_from(_, _, _)
get_acceptable_from(client, keys, server) ==
    IF keys = {} THEN Nil
    ELSE LET q == CHOOSE k \in keys : \A other \in keys \ {k} : key_above(k, other)
             allowed == allowable(client[q], server)
         IN IF Len(allowed) = 0 THEN get_acceptable_from(client, keys \ {q}, server)
            ELSE IF Len(allowed) = 1 THEN allowed[1]
            ELSE server_preferred(allowed, server)

get_acceptable(client, server) == get_acceptable_from(client, DOMAIN client, server)

ContentNegotiator ==
    [acceptable |-> <<>>, default_type |-> None, default_subtype |-> None,
     default_params |-> None, default_packaging |-> None]

\* the ContentType agreed on, Nil when there is none, Fault when the header
\* cannot be analysed
negotiate(cn, environ) ==
    LET packaging == IF environ.HTTP_PACKAGING # None THEN environ.HTTP_PACKAGING
                     ELSE cn.default_packaging
    IN IF environ.HTTP_ACCEPT = Nil
       THEN ContentType(cn.default_type, cn.default_subtype, cn.default_params, packaging)
       ELSE IF analyse_accept_raises(environ.HTTP_ACCEPT) THEN Fault
       ELSE get_acceptable(analyse_accept(environ.HTTP_ACCEPT, packaging), cn.acceptable)

(***************************************************************************)
(* Retrieval: the GET handlers of the container and of the media resource  *)
(* content, and the dissemination packagers they call.                     *)
(***************************************************************************)
Entry == ContentType("application", "atom+xml", "type=entry", None)
Feed == ContentType("application", "atom+xml", "type=feed", None)
Rdf == ContentType("application", "rdf+xml", None, None)
Zip == ContentType("application", "zip", None, None)
SimpleZip == ContentType("application", "zip", None, PackageSimpleZip)
Html == ContentType("text", "html", None, None)

package_disseminators ==
    (media_format(SimpleZip) :> "DefaultDisseminator")
        @@ (media_format(Zip) :> "DefaultDisseminator")
        @@ (media_format(Feed) :> "FeedDisseminator")

\* os.listdir of the container without the sss_ files and the excluded names:
\* the stored content files, what packagers wrote, and atom.xml
list_content(st, collection, id, exclude) ==
    LET c == st[<<collection, id>>]
    IN (DOMAIN c.files \cup (IF c.atom # None THEN {"atom.xml"} ELSE {})) \ exclude

\* the packager writes its file into the container: a zip is the set of its
\* member names, a feed the set of the files its entries link to
package(class, st, collection, id) ==
    IF class = "DefaultDisseminator"
    THEN [st EXCEPT ![<<collection, id>>].files =
            ("sword-default-package.zip" :>
                list_content(st, collection, id, {"sword-default-package.zip"})) @@ @]
    ELSE [st EXCEPT ![<<collection, id>>].files =
            ("mediaresource.feed.xml" :>
                list_content(st, collection, id, {"mediaresource.feed.xml"})) @@ @]

\* the store it leaves; redirect, and ok FALSE when no packager is configured
get_media_resource(st, oid, content_type) ==
    LET collection == interpret_oid(oid)[1]
        id == interpret_oid(oid)[2]
    IN IF mimetype(content_type) = mimetype(Html)
       THEN [store |-> st, ok |-> TRUE, redirect |-> TRUE, url |-> html_url(collection, id)]
       ELSE IF media_format(content_type) \notin DOMAIN package_disseminators
       THEN [store |-> st, ok |-> FALSE, redirect |-> FALSE, url |-> Nil]
       ELSE [store |-> package(package_disseminators[media_format(content_type)],
                               st, collection, id),
             ok |-> TRUE, redirect |-> FALSE, url |-> Nil]

\* the document of the container in the type asked for; open() raises
\* IOError when the file is not there
get_container(st, oid, content_type) ==
    IF mimetype(content_type) = mimetype(Entry)
    THEN IF st[oid].receipt = Nil THEN Fault ELSE [class |-> "document", of |-> "receipt"]
    ELSE IF mimetype(content_type) = mimetype(Rdf) \/ mimetype(content_type) = mimetype(Feed)
    THEN IF st[oid].statement = Nil THEN Fault ELSE [class |-> "document", of |-> "statement"]
    ELSE Absent

\* what a GET handler leaves: the store, the status line and the content
\* type it came to
Got(st, status, content_type) == [store |-> st, status |-> status, content_type |-> content_type]

Container_acceptable == <<Entry, Feed, Rdf>>

Container_GET(st, id, web) ==
    LET a == authenticate(web)
        cn == [ContentNegotiator EXCEPT !.default_type = "application",
                                        !.default_subtype = "atom+xml",
                                        !.default_params = "type=entry",
                                        !.acceptable = Container_acceptable]
        content_type == negotiate(cn, web)
    IN IF a.raised THEN Got(st, "500 Internal Server Error", Nil)
       ELSE IF ~Auth_success(a.auth) THEN Got(st, "401 Unauthorized", Nil)
       ELSE IF ~exists(st, id) THEN Got(st, "404 Not Found", Nil)
       ELSE IF content_type = Fault THEN Got(st, "500 Internal Server Error", content_type)
       ELSE IF content_type = Nil THEN Got(st, "415 Unsupported Media Type", content_type)
       ELSE IF get_container(st, id, content_type) = Fault
       THEN Got(st, "500 Internal Server Error", content_type)
       ELSE Got(st, NoStatus, content_type)

MediaResourceContent_acceptable == <<SimpleZip, Zip, Feed, Html>>

\* atom: the URL ends with ".atom"
MediaResourceContent_GET(st, id, atom, web) ==
    LET cn == [ContentNegotiator EXCEPT !.default_type = "text",
                                        !.default_subtype = "html",
                                        !.acceptable = MediaResourceContent_acceptable]
        content_type == IF atom THEN Feed ELSE negotiate(cn, web)
        media_resource == get_media_resource(st, id, content_type)
    IN IF ~exists(st, id) THEN Got(st, "404 Not Found", Nil)
       ELSE IF content_type = Fault THEN Got(st, "500 Internal Server Error", content_type)
       ELSE IF content_type = Nil THEN Got(st, "406 Not Acceptable", content_type)
       ELSE IF ~media_resource.ok THEN Got(st, "500 Internal Server Error", content_type)
       ELSE IF media_resource.redirect THEN Got(st, "302 Found", content_type)
       ELSE Got(media_resource.store, NoStatus, content_type)

(***************************************************************************)
(* Negotiation as a state machine: neg is the request that was answered,   *)
(* with the content type and the status it came to.  The store holds one   *)
(* container, deposited with an atom entry, and one request is followed.   *)
(***************************************************************************)
MediaTypes ==
    {<<"application", "zip">>, <<"text", "html">>, <<"image", "png">>, <<"*", "*">>,
     <<"html">>}
Components ==
    {<<>>, <<Component("q", "0.5")>>,
     <<Component("type", "feed"), Component("q", "0.5")>>,
     <<Component("v", "0.8"), Component("q", "0.5")>>}
AcceptParts == {<<type>> \o components : type \in MediaTypes, components \in Components}
AcceptHeaders ==
    {Nil} \cup UNION {[1 .. n -> AcceptParts] : n \in 1 .. MaxParts}
\* the acceptable lists a negotiator is given: two types, in either order
AcceptableLists ==
    {<<a, b>> : a \in {Zip, Html, Feed}, b \in {Zip, Html, Feed}} \ {<<a, a>> : a \in {Zip, Html, Feed}}
\* a GET with the credentials of the configured user, and one without any
GetRequests(credentials) ==
    [HTTP_AUTHORIZATION : credentials,
     HTTP_ON_BEHALF_OF : {None},
     HTTP_ACCEPT : AcceptHeaders,
     HTTP_PACKAGING : {None, PackageSimpleZip}]
GetTargets == Targets \cup {<<NoCollection, "id1">>}

Deposited ==
    deposit_new([oid \in {} |-> EmptyContainer], "col1",
                [DepositRequest EXCEPT !.atom = CHOOSE a \in AtomDocs : TRUE],
                Time(0, 0), "id1").store

NegotiateInit ==
    /\ neg = Nil
    /\ store = Deposited
    /\ cfg = Configuration
    /\ clock = 0
    /\ ops = 0
    /\ last = Idle
    /\ stmt = Nil
    /\ xml = Nil
    /\ loaded = Nil
    /\ rc = Nil
    /\ um = Nil
    /\ th = Nil

Negotiation(handler, id, web, acceptable, got) ==
    /\ neg' = [handler |-> handler, id |-> id, web |-> web, acceptable |-> acceptable,
               content_type |-> got.content_type, status |-> got.status]
    /\ store' = got.store
    /\ UNCHANGED <<cfg, clock, ops, last, stmt, xml, loaded, rc, um, th>>

\* cn.negotiate(environ) on a negotiator with no defaults
Negotiate ==
    /\ neg = Nil
    /\ \E acceptable \in AcceptableLists, web \in GetRequests({Nil}) :
          Negotiation("negotiate", Nil, web, acceptable,
                      Got(store, None,
                          negotiate([ContentNegotiator EXCEPT !.acceptable = acceptable], web)))

\* GET of an Edit-URI
ContainerGET ==
    /\ neg = Nil
    /\ \E id \in GetTargets, web \in GetRequests({Nil, <<cfg_user, cfg_password>>}) :
          Negotiation("Container.GET", id, web, Container_acceptable,
                      Container_GET(store, id, web))

\* GET of a Cont-URI
MediaResourceContentGET ==
    /\ neg = Nil
    /\ \E id \in GetTargets, atom \in BOOLEAN, web \in GetRequests({Nil}) :
          Negotiation(IF atom THEN "MediaResourceContent.GET.atom"
                      ELSE "MediaResourceContent.GET",
                      id, web, MediaResourceContent_acceptable,
                      MediaResourceContent_GET(store, id, atom, web))

NegotiateNext ==
    \/ Negotiate
    \/ ContainerGET
    \/ MediaResourceContentGET

SpecNegotiate == NegotiateInit /\ [][NegotiateNext]_vars

(***************************************************************************)
(* Retrieval after retrieval: GET requests for the media resource of one   *)
(* container, one after the other; neg is the request answered last.       *)
(***************************************************************************)
RetrieveAccepts ==
    {Nil} \cup {<<(<<type>>)>> : type \in {<<"application", "zip">>, <<"text", "html">>,
                                          <<"image", "png">>}}
RetrieveRequests ==
    [HTTP_AUTHORIZATION : {Nil},
     HTTP_ON_BEHALF_OF : {None},
     HTTP_ACCEPT : RetrieveAccepts,
     HTTP_PACKAGING : {None, PackageSimpleZip}]

RetrieveInit ==
    /\ neg = Nil
    /\ \E deposit \in FirstDeposits :
           store = deposit_new([oid \in {} |-> EmptyContainer], "col1", deposit,
                               Time(0, 0), "id1").store
    /\ cfg = Configuration
    /\ clock = 0
    /\ ops = 0
    /\ last = Idle
    /\ stmt = Nil
    /\ xml = Nil
    /\ loaded = Nil
    /\ rc = Nil
    /\ um = Nil
    /\ th = Nil

\* GET of a Cont-URI, with or without ".atom"
Retrieve ==
    /\ ops < MaxOps
    /\ \E id \in Targets, atom \in BOOLEAN, web \in RetrieveRequests :
          LET got == MediaResourceContent_GET(store, id, atom, web)
          IN /\ neg' = [handler |-> IF atom THEN "MediaResourceContent.GET.atom"
                                    ELSE "MediaResourceContent.GET",
                        id |-> id, web |-> web,
                        acceptable |-> MediaResourceContent_acceptable,
                        content_type |-> got.content_type, status |-> got.status]
             /\ store' = got.store
             /\ ops' = ops + 1
             /\ UNCHANGED <<cfg, clock, last, stmt, xml, loaded, rc, um, th>>

SpecRetrieve == RetrieveInit /\ [][Retrieve]_vars

(***************************************************************************)
(* The claims.  What a request asks for is read off the request itself,    *)
(* what the server did off the response and the store.                     *)
(***************************************************************************)
ChecksumOps == {"deposit_new", "replace", "add_content", "deposit_existing"}
DepositOps == ChecksumOps \cup {"update_metadata"}
DeleteOps == {"delete_content", "delete_container"}

Sentinel(req) == req.packaging = error_content_package
Mismatch(req) ==
    /\ req.content_md5 # None
    /\ req.content # None
    /\ req.content_md5 # md5_hexdigest(req.content)
\* a Content-MD5 that cannot be compared or does not agree
BadChecksum(req) == req.content_md5 # None /\ (req.content = None \/ Mismatch(req))
OnBehalfOf(req) == req.auth # Nil /\ req.auth.obo # None
Unmediated(req) == OnBehalfOf(req) /\ ~cfg.mediation

IsError(resp, code, uri) ==
    /\ resp.class = "DepositResponse"
    /\ resp.error_code = code
    /\ resp.error = uri
    /\ ~resp.created
    /\ ~resp.accepted
ErrorContent(resp) == IsError(resp, "400 Bad Request", error_content_uri)
ErrorChecksumMismatch(resp) ==
    IsError(resp, "412 Precondition Failed", error_checksum_mismatch_uri)
MediationNotAllowed(resp) ==
    IsError(resp, "412 Precondition Failed", error_mediation_not_allowed_uri)
ErrorResponse(resp) == resp.class = "DepositResponse" /\ resp.error # None

Succeeded(resp) ==
    \/ resp.class = "DepositResponse" /\ resp.error = None
    \/ resp.class = "DeleteResponse" /\ resp.error = None

\* the container the last operation worked on
Container ==
    IF last.op = "deposit_new"
    THEN <<last.target[1], CHOOSE id \in Ids : edit_uri(last.target[1], id) = last.resp.location>>
    ELSE last.target
\* the rdf:resource of the sword:state in the stored statement
StoredState(oid) ==
    LastChild(LastDescription(store[oid].statement, "sword:state"), "sword:state").resource
StoredDeposits(oid) == load_statement(store, oid[1], oid[2]).original_deposits
\* the response says accepted for an in-progress request and created otherwise
FlagsFollow(resp, req) ==
    /\ resp.accepted = req.in_progress
    /\ resp.created = ~req.in_progress
\* the stored statement carries the state the request asked for
StateFollows(oid, req) ==
    /\ oid \in DOMAIN store
    /\ store[oid].statement # Nil
    /\ StoredState(oid) = (IF req.in_progress THEN in_progress_uri ELSE archived_uri)

\* C1: a deposit_new into an existing collection whose request passes the
\* pre-checks is answered accepted (not created) when in_progress is true and
\* created (not accepted) when it is false, and the statement stored for the
\* new container carries the in-progress, respectively the archived, state URI.
C1_DepositNewState ==
    (/\ last.op = "deposit_new"
     /\ last.target[1] \in Collections
     /\ ~Sentinel(last.req)
     /\ ~BadChecksum(last.req)
     /\ ~Unmediated(last.req))
    => /\ last.resp.class = "DepositResponse"
       /\ FlagsFollow(last.resp, last.req)
       /\ StateFollows(Container, last.req)

\* C2: a POST to an existing collection with a binary body only, no Packaging
\* header and In-Progress false ends with status 201, a Location header equal
\* to the Edit-URI of the new container, and a stored statement that holds
\* exactly one original deposit.
C2_BinaryPost ==
    (/\ last.handler = "Collection.POST"
     /\ last.target[1] \in Collections
     /\ last.req # Nil
     /\ last.web.CONTENT_TYPE = None
     /\ last.web.HTTP_PACKAGING = None
     /\ last.web.HTTP_IN_PROGRESS \in {None, "false"}
     /\ last.web.HTTP_ON_BEHALF_OF = None)
    => /\ last.status = "201 Created"
       /\ \E id \in Ids :
            /\ last.location = edit_uri(last.target[1], id)
            /\ <<last.target[1], id>> \in DOMAIN store
            /\ store[<<last.target[1], id>>].statement # Nil
            /\ Len(StoredDeposits(<<last.target[1], id>>)) = 1

\* C3: in every state reached by engine operations, each completed or stopped
\* part-way on a fault, every container of the store has a stored Statement.
C3_ContainerHasStatement ==
    \A oid \in DOMAIN store : store[oid].statement # Nil

\* C4, as the claim states it: for deposit_new, replace, add_content and
\* deposit_existing, a request whose Content-MD5 differs from the MD5 of its
\* content is answered 412 ErrorChecksumMismatch and the store stays as it was.
C4_ChecksumMismatchAnyPackaging ==
    [][(last' # last /\ last'.op \in ChecksumOps /\ Mismatch(last'.req))
       => (ErrorChecksumMismatch(last'.resp) /\ store' = store)]_vars

\* C4, amended: the same for a request whose packaging is not the error
\* package, which is tested first.
C4_ChecksumMismatch ==
    [][(last' # last /\ last'.op \in ChecksumOps /\ Mismatch(last'.req)
        /\ ~Sentinel(last'.req))
       => (ErrorChecksumMismatch(last'.resp) /\ store' = store)]_vars

C4_Reached ==
    /\ last.op \in ChecksumOps
    /\ Mismatch(last.req)
    /\ ~Sentinel(last.req)
    /\ OnBehalfOf(last.req)
    /\ ErrorChecksumMismatch(last.resp)
    /\ last.target \in DOMAIN store

\* C5, as the claim states it: with mediation disabled, every deposit or
\* delete request that carries an On-Behalf-Of identity is answered 412
\* MediationNotAllowed, whatever its packaging, checksum and target are.
C5_MediationWhateverRequest ==
    (last.op \in DepositOps \cup DeleteOps /\ Unmediated(last.req))
    => MediationNotAllowed(last.resp)

\* C5, amended: with mediation disabled, a request that carries an
\* On-Behalf-Of identity is answered 412 MediationNotAllowed by update_metadata,
\* delete_content and delete_container always, and by deposit_new, replace,
\* add_content and deposit_existing when its packaging is not the error package
\* and its Content-MD5, if any, is that of its content; the target may or may
\* not exist.
C5_MediationNotAllowed ==
    (/\ last.op \in DepositOps \cup DeleteOps
     /\ Unmediated(last.req)
     /\ (last.op \in ChecksumOps => ~Sentinel(last.req) /\ ~BadChecksum(last.req)))
    => MediationNotAllowed(last.resp)

C5_Reached ==
    /\ last.op = "delete_container"
    /\ Unmediated(last.req)
    /\ last.target \in DOMAIN store
    /\ MediationNotAllowed(last.resp)

\* how many of the three pre-checks a request fails
Failures(req) ==
    (IF Sentinel(req) THEN 1 ELSE 0) + (IF Mismatch(req) THEN 1 ELSE 0)
        + (IF Unmediated(req) THEN 1 ELSE 0)
\* the error of the first failing check, in the order packaging, checksum, mediation
FirstFailing(req, resp) ==
    IF Sentinel(req) THEN ErrorContent(resp)
    ELSE IF Mismatch(req) THEN ErrorChecksumMismatch(resp)
    ELSE MediationNotAllowed(resp)

\* C6, as the claim states it: a deposit request that fails more than one
\* pre-check is answered with the error of the first failing check, in the
\* order error packaging, checksum mismatch, mediation, by every deposit
\* operation of the engine.
C6_FirstFailingCheckEveryOp ==
    (last.op \in DepositOps /\ Failures(last.req) > 1)
    => FirstFailing(last.req, last.resp)

\* C6, amended: the same for deposit_new, replace, add_content and
\* deposit_existing; update_metadata tests mediation only.
C6_FirstFailingCheck ==
    (last.op \in ChecksumOps /\ Failures(last.req) > 1)
    => FirstFailing(last.req, last.resp)

C6_Reached ==
    /\ last.op \in ChecksumOps
    /\ Sentinel(last.req)
    /\ Mismatch(last.req)
    /\ Unmediated(last.req)
    /\ ErrorContent(last.resp)

\* the pre-checks an operation makes
Checked(op, req) ==
    IF op \in ChecksumOps THEN Failures(req) > 0
    ELSE op \in {"update_metadata"} \cup DeleteOps /\ Unmediated(req)

\* the Content-MD5, if any, comes with a content to compare it with
Comparable(req) == req.content_md5 = None \/ req.content # None

C8_OneOutcome ==
    (last.op \in DepositOps /\ last.resp.class = "DepositResponse")
    => LET r == last.resp
           failed == r.error # None /\ r.error_code # None
       IN /\ (r.error # None) = (r.error_code # None)
          /\ (IF r.created THEN 1 ELSE 0) + (IF r.accepted THEN 1 ELSE 0)
                + (IF failed THEN 1 ELSE 0) = 1
          /\ failed => r.receipt = Nil
          /\ (r.created \/ r.accepted) => r.receipt # Nil

C8_Reached ==
    /\ last.op = "deposit_existing"
    /\ last.resp.class = "DepositResponse"
    /\ last.resp.accepted
    /\ last.resp.receipt # Nil

\* C9: after a successful deposit_new, replace, add_content, deposit_existing,
\* update_metadata or delete_content, the state of the container's stored
\* statement is the one the in_progress flag of that request asks for, and so
\* agrees with the accepted/created flag of the response.
C9_StateFollowsRequest ==
    (last.op \in DepositOps \cup {"delete_content"} /\ Succeeded(last.resp))
    => /\ StateFollows(Container, last.req)
       /\ last.resp.class = "DepositResponse" => FlagsFollow(last.resp, last.req)

(***************************************************************************)
(* The round trip of the Statement of src/sss/core.py.                     *)
(***************************************************************************)
Range(seq) == {seq[i] : i \in 1 .. Len(seq)}
Count(seq, x) == Cardinality({i \in 1 .. Len(seq) : seq[i] = x})
SameBag(a, b) == \A x \in Range(a) \cup Range(b) : Count(a, x) = Count(b, x)
WholeSeconds(s) == \A od \in Range(s.original_deposits) : od[2].usec = 0
\* no plain aggregate has the URI of an original deposit
PlainAggregates(s) ==
    \A od \in Range(s.original_deposits) : od[1] \notin Range(s.aggregates)
Reproduced(s, t) ==
    /\ t.aggregation_uri = s.aggregation_uri
    /\ t.rem_uri = s.rem_uri
    /\ t.in_progress = s.in_progress
    /\ SameBag(t.original_deposits, s.original_deposits)
    /\ Range(t.aggregates) = Range(s.aggregates)

\* C10, as the claim states it: for every Statement with whole-second
\* timestamps, loading the RDF/XML it serialises to into a new Statement
\* reproduces aggregation_uri, rem_uri, in_progress, the multiset of
\* original-deposit tuples and the set of plain aggregate URIs.
C10_RoundTripAnyAggregates ==
    (loaded # Nil /\ WholeSeconds(stmt)) => Reproduced(stmt, loaded)

\* C10, amended: the same for a Statement none of whose plain aggregates has
\* the URI of one of its original deposits.
C10_RoundTrip ==
    (loaded # Nil /\ WholeSeconds(stmt) /\ PlainAggregates(stmt))
    => Reproduced(stmt, loaded)

C10_Reached ==
    /\ loaded # Nil
    /\ WholeSeconds(stmt)
    /\ PlainAggregates(stmt)
    /\ Len(stmt.original_deposits) = 2
    /\ stmt.original_deposits[1] = stmt.original_deposits[2]
    /\ Len(stmt.aggregates) = 2
    /\ stmt.in_progress
    /\ Reproduced(stmt, loaded)

\* the collection, or the container, the operation is to work on is not there
TargetMissing(st, op, target) ==
    IF op = "deposit_new" THEN target[1] \notin Collections ELSE target \notin DOMAIN st
\* the pre-check of the operation raises: a Content-MD5 with no content to hash
CheckRaises(op, req) == op \in ChecksumOps /\ ~Sentinel(req) /\ ~Comparable(req)

\* C14, as the claim states it: an engine operation whose target collection
\* or container does not exist returns the absent result, whatever the
\* request, and leaves the store as it was.
C14_AbsentWhateverRequest ==
    [][(last' # last /\ last'.op # None /\ TargetMissing(store, last'.op, last'.target))
         => (last'.resp = Absent /\ store' = store)]_vars

\* C14: an engine operation whose target collection or container does not
\* exist leaves the store as it was; it returns the absent result when the
\* request passes the pre-checks, the error of the pre-check when it fails
\* one, and raises when the checksum cannot be computed.
C14_AbsentResult ==
    [][(last' # last /\ last'.op # None /\ TargetMissing(store, last'.op, last'.target))
         => /\ store' = store
            /\ IF CheckRaises(last'.op, last'.req) THEN last'.resp = Fault
               ELSE IF Checked(last'.op, last'.req) THEN ErrorResponse(last'.resp)
               ELSE last'.resp = Absent]_vars

C14_Reached ==
    /\ last.op = "deposit_existing"
    /\ last.target \notin DOMAIN store
    /\ ~Checked(last.op, last.req)
    /\ last.resp = Absent

(***************************************************************************)
(* Content negotiation.                                                    *)
(***************************************************************************)
Negotiated == neg # Nil /\ neg.handler = "negotiate"
Plain(ct) == ct.params = None /\ ct.packaging = None
\* the part of an Accept header that names a plain content type
Names(ct) == <<ct.type, ct.subtype>>
\* part i of the header is a media type that matches a type of the server
EntryMatches(accept, i, packaging, server) ==
    /\ Len(accept[i][1]) = 2
    /\ \E n \in 1 .. Len(server) :
          matches(accept_type(accept, i, packaging), server[n], FALSE)
NoEntryMatches(web, server) ==
    /\ web.HTTP_ACCEPT # Nil
    /\ \A i \in 1 .. Len(web.HTTP_ACCEPT) :
          ~EntryMatches(web.HTTP_ACCEPT, i, web.HTTP_PACKAGING, server)

\* C11: with the acceptable list [A, B] and the header Accept: B,A;q=0.5
\* negotiate returns B, the entry without a q-value ranking above the entry
\* with an explicit q-value below 1.
C11_UnweightedAboveWeighted ==
    (/\ Negotiated
     /\ neg.web.HTTP_PACKAGING = None
     /\ Plain(neg.acceptable[1])
     /\ Plain(neg.acceptable[2])
     /\ neg.web.HTTP_ACCEPT = << <<Names(neg.acceptable[2])>>,
                                 <<Names(neg.acceptable[1]), Component("q", "0.5")>> >>)
    => neg.content_type = neg.acceptable[2]

\* C12: with the acceptable list [A, B], neither with packaging, and the
\* header Accept: */* negotiate returns A: the order of the server decides.
C12_ServerOrderDecides ==
    (/\ Negotiated
     /\ neg.web.HTTP_PACKAGING = None
     /\ neg.acceptable[1].packaging = None
     /\ neg.acceptable[2].packaging = None
     /\ neg.web.HTTP_ACCEPT = << <<(<<"*", "*">>)>> >>)
    => neg.content_type = neg.acceptable[1]

C12_Reached ==
    /\ Negotiated
    /\ neg.web.HTTP_PACKAGING = None
    /\ neg.web.HTTP_ACCEPT = << <<(<<"*", "*">>)>> >>
    /\ neg.acceptable = <<Html, Zip>>
    /\ neg.content_type = Html

\* C13: when an Accept header is sent and none of its entries matches a type
\* of the acceptable list, negotiate returns no content type, the Container
\* GET handler answers 415 and the media resource GET handler 406.
C13_NoMatchNoType ==
    (neg # Nil /\ NoEntryMatches(neg.web, neg.acceptable))
    => /\ neg.handler = "negotiate" => neg.content_type = Nil
       /\ (neg.handler = "Container.GET" /\ neg.status \notin {"401 Unauthorized", "404 Not Found"})
            => neg.status = "415 Unsupported Media Type"
       /\ (neg.handler = "MediaResourceContent.GET" /\ neg.status # "404 Not Found")
            => neg.status = "406 Not Acceptable"


(***************************************************************************)
(* The HTTP interface                                                      *)
(***************************************************************************)
UpdateHandlers == {"MediaResource.PUT", "MediaResource.POST", "Container.POST", "Container.PUT"}
DeleteHandlers == {"MediaResource.DELETE", "Container.DELETE"}
\* the handler has just answered a request
Answered == last' # last /\ last'.handler # None

\* C15: with allow_update false every PUT and POST on a media resource and
\* every POST and PUT on a container is answered 405 MethodNotAllowed and
\* leaves the store unchanged; with allow_delete false so is every DELETE
\* on a media resource or a container.
C15_DisabledMethodRefused ==
    [][(/\ Answered
        /\ \/ last'.handler \in UpdateHandlers /\ ~cfg.allow_update
           \/ last'.handler \in DeleteHandlers /\ ~cfg.allow_delete)
         => /\ last'.status = "405 Method Not Allowed"
            /\ last'.body = sword_error(error_method_not_allowed_uri)
            /\ store' = store]_vars


DepositHandlers ==
    {"Collection.POST", "MediaResource.PUT", "MediaResource.POST", "Container.POST",
     "Container.PUT"}
\* the engine call of the request returned a response without an error
DepositSucceeded(l) ==
    /\ l.op # None
    /\ l.resp.class = "DepositResponse"
    /\ l.resp.error_code = None

\* C16: on each deposit route (POST to a collection, PUT and POST to the
\* media resource, POST and PUT to the container) a deposit that succeeds
\* with In-Progress true is answered 202 Accepted with the deposit receipt
\* (the receipt being the body whenever the server is set to return one).
C16_InProgressAccepted ==
    [][(/\ Answered
        /\ last'.handler \in DepositHandlers
        /\ DepositSucceeded(last')
        /\ last'.req.in_progress)
         => /\ last'.status = "202 Accepted"
            /\ last'.body = ReceiptBody(last'.resp)]_vars


\* the request carries no credentials, a wrong user or password, or an
\* On-Behalf-Of that is not the configured one
AuthenticationFails(web) ==
    /\ cfg.authenticate
    /\ \/ web.HTTP_AUTHORIZATION = Nil
       \/ web.HTTP_AUTHORIZATION # <<cfg_user, cfg_password>>
       \/ web.HTTP_ON_BEHALF_OF \notin {None, cfg_obo}

\* C17: a POST, PUT or DELETE request whose authentication fails is
\* answered 401, reaches no engine operation and leaves the store unchanged.
C17_FailedAuthentication ==
    [][(Answered /\ AuthenticationFails(last'.web))
         => /\ last'.status = "401 Unauthorized"
            /\ last'.op = None
            /\ store' = store]_vars


\* the handler of the request got as far as validate_deposit_request
Validated(l) ==
    LET a == authenticate(l.web)
    IN /\ l.handler \in DepositHandlers
       /\ l.handler \in {"MediaResource.PUT", "Container.POST"} => cfg.allow_update
       /\ ~a.raised
       /\ Auth_success(a.auth)
Multipart(web) == DOMAIN web.input # {}

\* C18: a multipart deposit whose parts are not exactly two, named atom and
\* payload, is rejected with 400 ErrorBadRequest by validate_deposit_request
\* (before get_deposit reads the parts).
C18_MultipartPartsValidated ==
    [][(/\ Answered
        /\ Validated(last')
        /\ Multipart(last'.web)
        /\ DOMAIN last'.web.input # {"atom", "payload"})
         => /\ validate_deposit_request(last'.web, TRUE) # None
            /\ last'.status = "400 Bad Request"
            /\ last'.body = sword_error(error_bad_request_uri)]_vars


(***************************************************************************)
(* Faults                                                                  *)
(***************************************************************************)
\* C19: whatever the deposit request (any packaging, with or without
\* content, atom entry and Content-MD5), an engine operation returns a
\* response or the absent result and never ends in an uncaught fault.
C19_NoUncaughtFault ==
    (last.op \in DepositOps /\ last.handler = None) => last.resp # Fault


(***************************************************************************)
(* The deposit receipt                                                     *)
(***************************************************************************)
\* C20: two calls of deposit_receipt with the same collection, id, request,
\* statement and metadata give the same receipt in every field but updated,
\* and the second returns what it would have returned without the first.
C20_ReceiptDeterministic ==
    rc.calls = 2 =>
        /\ [rc.first EXCEPT !.updated = None] = [rc.second EXCEPT !.updated = None]
        /\ rc.second = deposit_receipt(rc.in.collection, rc.in.id, rc.in.deposit,
                                       rc.in.statement, rc.in.metadata, rc.now)

\* both calls made, at different seconds, with a metadata dict the first
\* call had to fill
C20_Reached ==
    /\ rc.calls = 2
    /\ ~rc.in.is_none
    /\ "title" \notin DOMAIN rc.in.metadata
    /\ rc.held # rc.in.metadata
    /\ rc.first.updated # rc.second.updated


(***************************************************************************)
(* The URI manager                                                         *)
(***************************************************************************)
\* C21: two different triples (collection, id, role) never get the same
\* URI, and one triple always gets the same URI.
C21_UrisInjective ==
    um.calls = 2 =>
        /\ um.first # um.second => um.uri1 # um.uri2
        /\ um.first = um.second => um.uri1 = um.uri2


(***************************************************************************)
(* Content negotiation: the tiers of the client                            *)
(***************************************************************************)
\* negotiate analysed the Accept header of the request
Analysed ==
    /\ Negotiated
    /\ neg.web.HTTP_ACCEPT # Nil
    /\ ~analyse_accept_raises(neg.web.HTTP_ACCEPT)
\* the q-value a key of the analysed header stands for, in tenths
key_q(k) == IF k[1] = "str" THEN float[k[2]] ELSE k[2]
\* the positions of the server types that match an entry of the tier q
TierMatches(client, server, q) ==
    {n \in 1 .. Len(server) :
        \E k \in DOMAIN client :
            /\ key_q(k) = q
            /\ \E m \in 1 .. Len(client[k]) : matches(client[k][m], server[n], FALSE)}
\* the highest q-value that has a match and the server's first type among its matches
TierChoice(client, server) ==
    LET live == {q \in {key_q(k) : k \in DOMAIN client} : TierMatches(client, server, q) # {}}
        top == CHOOSE q \in live : \A other \in live : other <= q
        hits == TierMatches(client, server, top)
    IN IF live = {} THEN Nil ELSE server[CHOOSE n \in hits : \A other \in hits : n <= other]

\* C22: get_acceptable returns the server's most-preferred type among the
\* server types that match an entry of the highest q-tier that has a match
\* (lower tiers count only when no higher tier matches), and what it returns
\* is an element of the server list.
C22_HighestTierServerFirst ==
    Analysed =>
        LET client == analyse_accept(neg.web.HTTP_ACCEPT, neg.web.HTTP_PACKAGING)
        IN /\ neg.content_type = TierChoice(client, neg.acceptable)
           /\ neg.content_type # Nil =>
                \E n \in 1 .. Len(neg.acceptable) : neg.content_type = neg.acceptable[n]

\* C23: of the entries without an explicit q-value an earlier one gets a
\* strictly higher q than a later one, so that Accept: B,A with the server
\* list [A, B] negotiates B.
C23_EarlierRanksHigher ==
    Analysed =>
        LET accept == neg.web.HTTP_ACCEPT
        IN /\ \A i, j \in 1 .. Len(accept) :
                (i < j /\ StatedQ(accept[i]) = None /\ StatedQ(accept[j]) = None)
                    => accept_key(accept, i)[2] > accept_key(accept, j)[2]
           /\ (/\ neg.web.HTTP_PACKAGING = None
               /\ Plain(neg.acceptable[1])
               /\ Plain(neg.acceptable[2])
               /\ accept = << <<Names(neg.acceptable[2])>>, <<Names(neg.acceptable[1])>> >>)
                => neg.content_type = neg.acceptable[2]


(***************************************************************************)
(* The history of a container                                              *)
(***************************************************************************)
\* the engine has just returned from op without an error
Returned(op) ==
    /\ last' # last
    /\ last'.op = op
    /\ Succeeded(last'.resp)
\* the original deposits of the statement stored for a container
Deposits(st, oid) == load_statement(st, oid[1], oid[2]).original_deposits
\* the names of the content files kept in a container
Files(st, oid) == DOMAIN st[oid].files
\* the last original deposit is one for the content the request brought
NewEntry(st, oid, req) ==
    LET ods == Deposits(st, oid)
        od == ods[Len(ods)]
    IN /\ \E fn \in Files(st, oid) :
            /\ od[1] = part_uri(oid[1], oid[2], fn)
            /\ st[oid].files[fn] = req.content
       /\ od[3] = req.packaging

Recorded(st, oid) ==
    \A fn \in Files(st, oid) :
        \E i \in 1 .. Len(Deposits(st, oid)) :
            Deposits(st, oid)[i][1] = part_uri(oid[1], oid[2], fn)

\* C25: a successful add_content with content leaves the stored statement
\* with the original deposits it held before plus one new entry for the
\* content, so that every content file kept is recorded in the statement.
C25_AddContentKeepsDeposits ==
    [][Returned("add_content") /\ last'.req.content # None =>
        LET oid == last'.target
            before == Deposits(store, oid)
            after == Deposits(store', oid)
        IN /\ Len(after) = Len(before) + 1
           /\ SubSeq(after, 1, Len(before)) = before
           /\ NewEntry(store', oid, last'.req)
           /\ Recorded(store', oid)]_vars

\* the state URI of the statement stored for a container
StatementState(st, oid) ==
    LastChild(LastDescription(st[oid].statement, "sword:state"), "sword:state").resource
RequestedState(req) == IF req.in_progress THEN in_progress_uri ELSE archived_uri

\* C26: after a successful replace the stored statement has exactly one
\* original deposit, the one just stored, the container holds no content
\* file but the one of that deposit, and the stored state is the one the
\* in_progress flag of the request gives.
C26_ReplaceDiscardsHistory ==
    [][Returned("replace") =>
        LET oid == last'.target
            after == Deposits(store', oid)
        IN /\ Len(after) = 1
           /\ NewEntry(store', oid, last'.req)
           /\ \A fn \in Files(store', oid) :
                  after[1][1] = part_uri(oid[1], oid[2], fn)
           /\ StatementState(store', oid) = RequestedState(last'.req)]_vars

\* a replace of a container that holds a file stored at an earlier time
C26_Reached ==
    /\ last.op = "replace"
    /\ Succeeded(last.resp)
    /\ Files(store, last.target) = {get_filename(Time(clock, 0), last.req.filename)}
    /\ clock > 0

\* C27: after a successful delete_content the container still exists and
\* holds no content file, its stored statement has no original deposit and
\* the state the in_progress flag of the delete request gives, and the
\* response carries a receipt and no error.
C27_DeleteContentEmpties ==
    [][Returned("delete_content") =>
        LET oid == last'.target
        IN /\ oid \in DOMAIN store'
           /\ Files(store', oid) = {}
           /\ store'[oid].statement # Nil
           /\ Deposits(store', oid) = <<>>
           /\ StatementState(store', oid) = RequestedState(last'.req)
           /\ last'.resp.class = "DeleteResponse"
           /\ last'.resp.receipt # Nil
           /\ last'.resp.error = None]_vars

\* a delete_content, in progress, that left an empty container with a receipt
C27_Reached ==
    /\ last.op = "delete_content"
    /\ Succeeded(last.resp)
    /\ last.req.in_progress
    /\ store[last.target].receipt # Nil
    /\ Files(store, last.target) = {}

(***************************************************************************)
(* A container that was deleted.  Under SpecDelete every container id is   *)
(* in the store at the start, so an id that is not there was deleted and   *)
(* no deposit_new has made it again.                                       *)
(***************************************************************************)
\* an engine operation other than deposit_new is called on a deleted id
AfterDelete ==
    /\ last' # last
    /\ last'.op \notin {None, "deposit_new"}
    /\ last'.target \notin DOMAIN store
\* delete_container leaves nothing of the container and returns a bare response
Gone ==
    Returned("delete_container") =>
        /\ last'.target \notin DOMAIN store'
        /\ last'.resp.class = "DeleteResponse"
        /\ last'.resp.receipt = Nil
        /\ last'.resp.error = None

\* C28, as the claim states it: after a successful delete_container the
\* container and its artifacts are gone and the response has no receipt and
\* no error; every later operation on the id returns the absent result, a
\* second delete_container too, until a deposit_new makes the id again.
C28_DeletedAnswersAbsent ==
    [][Gone /\ (AfterDelete => last'.resp = Absent)]_vars

\* C28: after a successful delete_container the container and its artifacts
\* are gone and the response has no receipt and no error; every later
\* operation on the id leaves the store as it is and returns the absent
\* result when its request passes the pre-checks, the error of the pre-check
\* when it fails one, and raises when the checksum cannot be computed; a
\* second delete_container never raises.
C28_DeletedStaysGone ==
    [][/\ Gone
       /\ AfterDelete =>
            /\ store' = store
            /\ IF CheckRaises(last'.op, last'.req) THEN last'.resp = Fault
               ELSE IF Checked(last'.op, last'.req) THEN ErrorResponse(last'.resp)
               ELSE last'.resp = Absent
            /\ last'.op = "delete_container" => last'.resp # Fault]_vars

\* a second delete_container, answered absent
C28_Reached ==
    /\ ops = 2
    /\ last.op = "delete_container"
    /\ last.target \notin DOMAIN store
    /\ last.resp = Absent

(***************************************************************************)
(* What update_metadata leaves alone.                                      *)
(***************************************************************************)
\* a container but for its source atom document and its receipt
Kept(c) == [files |-> c.files, metadata |-> c.metadata, statement |-> c.statement]

\* C29: update_metadata changes nothing but the source atom document and
\* the receipt of its container: the stored statement, the content files
\* and the extracted metadata of the container are as before the call, and
\* so is every other container.
C29_UpdateMetadataFrame ==
    [][(last' # last /\ last'.op = "update_metadata") =>
        /\ DOMAIN store' = DOMAIN store
        /\ \A oid \in DOMAIN store :
              IF oid = last'.target
              THEN Kept(store'[oid]) = Kept(store[oid])
              ELSE store'[oid] = store[oid]]_vars

\* an update_metadata that stored its atom document in a container with content
C29_Reached ==
    /\ last.op = "update_metadata"
    /\ Succeeded(last.resp)
    /\ store[last.target].atom = last.req.atom
    /\ store[last.target].receipt = last.resp.receipt
    /\ Files(store, last.target) # {}
    /\ Len(Deposits(store, last.target)) = 1

(***************************************************************************)
(* The order of the writes of one operation.  An operation is one step, so *)
(* the order shows in what an operation that raised part way has left.     *)
(***************************************************************************)
StatementWriters ==
    {"deposit_new", "replace", "add_content", "deposit_existing", "delete_content"}
\* the document is the one that was there, or there is none
NotWritten(before, after, oid, doc) ==
    \/ after[oid][doc] = Nil
    \/ oid \in DOMAIN before /\ after[oid][doc] = before[oid][doc]
\* every original deposit of every stored statement names a stored file
RecordedIsStored(st) ==
    \A oid \in DOMAIN st :
        st[oid].statement # Nil =>
            \A i \in 1 .. Len(Deposits(st, oid)) :
                \E fn \in Files(st, oid) :
                    Deposits(st, oid)[i][1] = part_uri(oid[1], oid[2], fn)

SlugTaken ==
    /\ last' # last
    /\ last'.op = "deposit_new"
    /\ last'.req.slug # None
    /\ <<last'.target[1], last'.req.slug>> \in DOMAIN store

\* C31: deposit_new never overwrites a container: when the Slug of the
\* request is the id of a container the collection already has, the
\* statement, receipt, metadata, atom document and content files of that
\* container are left as they were.
C31_SlugNeverOverwrites ==
    [][SlugTaken =>
        LET oid == <<last'.target[1], last'.req.slug>>
        IN oid \in DOMAIN store' /\ store'[oid] = store[oid]]_vars

\* the container the operation that has just run worked on
Worked ==
    IF last'.op = "deposit_new" THEN <<last'.target[1], last'.req.slug>> ELSE last'.target

\* C32: a deposit_new, replace or deposit_existing whose metadata_relevant
\* is false leaves the metadata extracted earlier for the container as it
\* was, with or without an atom document in the container.
C32_IrrelevantKeepsMetadata ==
    [][(/\ last' # last
        /\ last'.op \in {"deposit_new", "replace", "deposit_existing"}
        /\ ~last'.req.metadata_relevant
        /\ Worked \in DOMAIN store)
       => /\ Worked \in DOMAIN store'
          /\ store'[Worked].metadata = store[Worked].metadata]_vars

(***************************************************************************)
(* The names of the stored content files.                                  *)
(***************************************************************************)
\* no two original deposits of the stored statement have the same URI
DistinctDeposits(st, oid) ==
    \A i, j \in 1 .. Len(Deposits(st, oid)) :
        Deposits(st, oid)[i][1] = Deposits(st, oid)[j][1] => i = j

\* C33: store_content gives every file of a container a name of its own,
\* also for the same client filename in the same second: a deposit that adds
\* content to a container overwrites no file of an earlier deposit, and no
\* two original deposits of the stored statement share a URI.
C33_StoredNamesDiffer ==
    [][(/\ last' # last
        /\ last'.op \in {"add_content", "deposit_existing"}
        /\ last'.req.content # None
        /\ Succeeded(last'.resp))
       => LET oid == last'.target
          IN /\ Files(store, oid) \subseteq Files(store', oid)
             /\ Cardinality(Files(store', oid)) = Cardinality(Files(store, oid)) + 1
             /\ DistinctDeposits(store', oid)]_vars

(***************************************************************************)
(* A container without its statement.                                      *)
(***************************************************************************)
\* deposit_existing or update_metadata, with a request that passes the
\* pre-checks, is called on a container that has no sss_statement.xml
NoStatement ==
    /\ last' # last
    /\ last'.op \in {"deposit_existing", "update_metadata"}
    /\ ~Checked(last'.op, last'.req)
    /\ ~CheckRaises(last'.op, last'.req)
    /\ last'.target \in DOMAIN store
    /\ store[last'.target].statement = Nil

\* C34: load_statement and get_metadata do not fail on a container that
\* exists: without the statement file load_statement gives an empty
\* Statement, without the metadata file get_metadata gives an empty mapping,
\* so deposit_existing and update_metadata on such a container do not raise.
C34_MissingArtifactsDefault ==
    [][NoStatement => last'.resp # Fault]_vars

(***************************************************************************)
(* Requests that overlap.                                                  *)
(***************************************************************************)
\* the statement embedded in the receipt stored for a container
Embedded(st, oid) == Statement_load(st[oid].receipt[1].statement)
\* the stored receipt and the stored statement tell of the same original
\* deposits and the same state
Agree(st, oid) ==
    /\ (st[oid].receipt = Nil) = (st[oid].statement = Nil)
    /\ st[oid].receipt # Nil =>
          /\ Embedded(st, oid).original_deposits = Deposits(st, oid)
          /\ Embedded(st, oid).in_progress
                = load_statement(st, oid[1], oid[2]).in_progress
AllDone == \A t \in Threads : th.run[t].pc = "done"
AllSucceeded == \A t \in Threads : Succeeded(th.run[t].resp)

\* C35: the steps of two engine operations on one container can interleave
\* so that, when both have returned, the stored receipt embeds another
\* statement than the stored one; two operations that ran one after the
\* other leave no such pair.
C35_TornOnlyByOverlap ==
    (AllDone /\ ~Agree(store, Shared)) => th.overlapped

\* both operations have returned a receipt and the stored pair is torn
C35_Reached ==
    /\ AllDone
    /\ AllSucceeded
    /\ ~Agree(store, Shared)

\* C36: however the steps of two deposit_existing requests with content on
\* one container interleave, when both have returned the stored statement
\* has an original deposit for the content of each.
C36_NoDepositLost ==
    (/\ AllDone
     /\ AllSucceeded
     /\ \A t \in Threads : th.run[t].op = "deposit_existing")
    => \A t \in Threads :
          \E i \in 1 .. Len(Deposits(store, Shared)) :
              Deposits(store, Shared)[i][1]
                  = part_uri(Shared[1], Shared[2], th.run[t].ufn)

(***************************************************************************)
(* The URIs of a statement.                                                *)
(***************************************************************************)
\* the resource map the document is about, and the aggregation it describes
RemOf(doc) == LastDescription(doc, "ore:describes").about
AggOf(doc) == LastChild(LastDescription(doc, "ore:describes"), "ore:describes").resource
\* the document names the Edit-URI as resource map and the Agg-URI as aggregation
UrisAsCreated(doc, oid) ==
    /\ RemOf(doc) = edit_uri(oid[1], oid[2])
    /\ AggOf(doc) = agg_uri(oid[1], oid[2])

\* C37: the aggregation_uri and the rem_uri of the statement of a container
\* are never changed nor exchanged: the stored statement and the statement
\* embedded in the stored receipt have the Agg-URI of the container as
\* aggregation and its Edit-URI as resource map, as deposit_new set them.
C37_UrisNeverExchanged ==
    \A oid \in DOMAIN store :
        /\ store[oid].statement # Nil => UrisAsCreated(store[oid].statement, oid)
        /\ store[oid].receipt # Nil => UrisAsCreated(store[oid].receipt[1].statement, oid)

\* C38: after every engine operation that returns without an error on a
\* container that is still there, the statement embedded in the stored
\* receipt has the same original deposits and the same state as the stored
\* statement, so that the Atom entry and the RDF/XML of the container agree.
C38_ReceiptAgreesWithStatement ==
    (/\ last.op \notin {None, "delete_container"}
     /\ Succeeded(last.resp))
    => /\ Container \in DOMAIN store
       /\ store[Container].receipt # Nil
       /\ Agree(store, Container)

\* an update_metadata after a deposit: the receipt is new, the statement is not
C38_Reached ==
    /\ last.op = "update_metadata"
    /\ Succeeded(last.resp)
    /\ store[last.target].receipt = last.resp.receipt
    /\ Len(Deposits(store, last.target)) = 1
    /\ Agree(store, last.target)

(***************************************************************************)
(* The containers an operation does not work on.                           *)
(***************************************************************************)
Made == DOMAIN store' \ DOMAIN store
Removed == DOMAIN store \ DOMAIN store'
Untouched(oids) == \A oid \in oids : oid \in DOMAIN store' /\ store'[oid] = store[oid]

\* C39: the set of containers changes only by deposit_new, which adds one
\* container and leaves every container that exists as it is, and by
\* delete_container, which removes the container it is called on; every
\* other operation keeps the set, and every operation on a container leaves
\* all other containers as they are.
C39_OtherContainersUntouched ==
    [][(last' # last /\ last'.op # None) =>
        IF last'.op = "deposit_new"
        THEN /\ Removed = {}
             /\ Cardinality(Made) <= 1
             /\ Succeeded(last'.resp) => Cardinality(Made) = 1
             /\ Untouched(DOMAIN store)
        ELSE IF last'.op = "delete_container"
        THEN /\ Made = {}
             /\ Removed = IF Succeeded(last'.resp) THEN {last'.target} ELSE {}
             /\ Untouched(DOMAIN store \ {last'.target})
        ELSE /\ Made = {}
             /\ Removed = {}
             /\ Untouched(DOMAIN store \ {last'.target})]_vars

(***************************************************************************)
(* What a package lists.                                                   *)
(***************************************************************************)
DisseminatorFiles == {"sword-default-package.zip", "mediaresource.feed.xml"}
\* the files a client has deposited in the container
DepositedFiles(st, oid) ==
    (DOMAIN st[oid].files \ DisseminatorFiles)
        \cup (IF st[oid].atom # None THEN {"atom.xml"} ELSE {})

\* C40: what a GET of the media resource gives does not depend on the GETs
\* before it: the zip package and the feed list the deposited files of the
\* container and never a file a disseminator wrote.
C40_PackagesListDeposits ==
    \A oid \in DOMAIN store :
        \A f \in DisseminatorFiles \cap DOMAIN store[oid].files :
            store[oid].files[f] = DepositedFiles(store, oid)

====
